---- MODULE Spec2Model ----
(***************************************************************************)
(* Model of the Living Lytics API core: the OAuth CSRF state cache, the    *)
(* weekly digest ledger and its reporting period, the Resend webhook       *)
(* ingest and the seeding of email events, the outbound mailer, the        *)
(* provider token refresh, the OAuth callbacks and disconnect routes, the  *)
(* metric sync with its initial backfill, the batch digest endpoint and    *)
(* the in-memory rate limiter.                                             *)
(*                                                                         *)
(* Each component has its own specifications (SpecOAuth; SpecDigestSeq,    *)
(* SpecDigestBatch, SpecDigest; SpecPeriod; SpecWebhook, SpecWebhookDb,    *)
(* SpecSeed; SpecMailer; SpecRefresh; SpecLimiter, SpecLimiterThreads,     *)
(* SpecAllow; SpecWeeklySeq, SpecWeekly, SpecBatchRuns, SpecOptOut;        *)
(* SpecConnect, SpecCallbacks, SpecDisconnect, SpecStateCheck,             *)
(* SpecCrossProvider, SpecBackfill) over the shared variables; a           *)
(* component's actions leave the other components' variables unchanged.    *)
(***************************************************************************)
EXTENDS Integers, Sequences, FiniteSets, TLC

VARIABLES
    \* ---- wall clock (time.time(), seconds) ----
    clock,              \* current reading of the wall clock
    ticks,              \* number of clock advances so far (bounds the run)
    \* ---- OAuth CSRF state cache (src/main.py:1914-1960) ----
    oauth_state_store,  \* token -> [email, expires_at]
    oauth_state_lock,   \* 0 = free, otherwise the thread holding it
    opc,                \* thread -> position in generate/verify
    olocal,             \* thread -> locals (state_token, email, state_data)
    nextToken,          \* next fresh token (sha256 over a uuid4: never repeats)
    issued,             \* history: token -> [email, at] once stored
    verifyLog,          \* history: token -> sequence of completed verifications
    numVerifies,        \* number of verify_oauth_state calls started
    \* ---- weekly digest ledger (src/scheduler_utils.py:282-428) ----
    today,              \* current date in PT, as a day number (day 0 is a Monday)
    dayAdvances,        \* number of date changes so far (bounds the run)
    optUpdates,         \* number of preference updates so far (bounds the run)
    opt_in_digest,      \* users.opt_in_digest: user -> BOOLEAN
    last_digest_sent_at, \* users.last_digest_sent_at: user -> day or None
    digest_log,         \* digest_log table: sequence of rows, in insertion order
    dpc,                \* thread -> position in run_weekly_digests/send_weekly_digest
    dlocal,             \* thread -> locals (users left, user_id, period, results)
    numRuns,            \* number of run_weekly_digests invocations started
    delivered,          \* history: user -> number of digest emails Resend accepted
    callLog,            \* history: completed send_weekly_digest calls
    runLog,             \* history: summaries returned by run_weekly_digests
    \* ---- Resend webhook ingest (src/main.py:1187-1264) ----
    webhook_secret,     \* os.getenv("RESEND_WEBHOOK_SECRET")
    email_events,       \* email_events table: sequence of rows, in insertion order
    numDeliveries,      \* number of webhook requests handled
    numSeeds,           \* number of POST /v1/dev/seed-email-events requests handled
    whLog,              \* history: the handled webhook requests
    \* ---- provider token refresh (src/main.py:2091-2148, 2494-2553) ----
    oauth_configured,   \* provider -> client id and secret are set in the environment
    data_sources,       \* data_sources table: sequence of rows
    numRefreshes,       \* number of refresh calls made
    lastRefresh,        \* history: provider -> the latest refresh call and its outcome
    lastAnswer,         \* history: provider -> what the token endpoint answered to it
    \* ---- in-memory rate limiter (src/main.py:122-150) ----
    buckets,            \* key -> [present, tokens, last_refill]; tokens in half tokens
    burst,              \* history: key -> the calls made on the fresh bucket
    rate_limiter_lock,  \* InMemoryRateLimiter.lock: 0 = free, otherwise its holder
    apc,                \* thread -> position in allow
    alocal,             \* thread -> locals of allow (key, tokens, now, result)
    numCalls,           \* number of allow calls started
    credit,             \* history: key -> units credited to the bucket and not taken
    \* ---- batch digest endpoint (src/main.py:603-714) ----
    digest_runs,        \* digest_runs table: sequence of rows, in insertion order
    wpc,                \* request thread -> position in weekly_digest
    wlocal,             \* request thread -> locals of weekly_digest
    numWeekly,          \* number of POST /v1/digest/weekly requests made
    weeklyLog,          \* history: the answered requests
    \* ---- provider connection (src/main.py:1962-2089, 2154-2446) ----
    cpc,                \* request thread -> position in an OAuth callback
    clocal,             \* request thread -> locals of the callback
    numCallbacks,       \* number of OAuth callbacks handled
    cbLog,              \* history: the answered OAuth callbacks
    google_sub,         \* users.google_sub: user -> Google subject id, or None
    lastDisconnect,     \* history: the last disconnect request and its effect
    \* ---- period computation (src/scheduler_utils.py:22-47) ----
    utc_hour,           \* the current instant, in hours since a Monday 00:00 UTC
    lastWeek,           \* history: the last call of get_last_completed_week
    \* ---- outbound email (src/mailer.py:6-57) ----
    api_key,            \* RESEND_API_KEY: unset, empty or set
    mpc,                \* position in send_email_resend
    attempt,            \* the loop variable of send_email_resend
    posts,              \* history: what each POST of the current call met
    slept,              \* history: time.sleep of the current call, in tenths of a second
    mresult,            \* history: how the current call ended
    numSends,           \* number of send_email_resend calls made
    \* ---- metric sync and initial backfill (src/main.py:2384-2444, 2826-3020) ----
    metrics,            \* metrics table: user -> source_name -> number of rows
    ga4_properties,     \* ga4_properties table: user -> property_id, or None
    numSaves,           \* number of POST /v1/connections/google/property requests
    backfills           \* history: user -> source_name -> 30-day syncs that returned

clockVars == <<clock, ticks>>
oauthVars == <<oauth_state_store, oauth_state_lock, opc, olocal, nextToken,
               issued, verifyLog, numVerifies>>
digestVars == <<today, dayAdvances, optUpdates, opt_in_digest, last_digest_sent_at, digest_log,
                dpc, dlocal, numRuns, delivered, callLog, runLog>>
webhookVars == <<webhook_secret, email_events, numDeliveries, numSeeds, whLog>>
refreshVars == <<oauth_configured, data_sources, numRefreshes, lastRefresh, lastAnswer>>
limiterThreadVars == <<rate_limiter_lock, apc, alocal, numCalls, credit>>
limiterVars == <<buckets, burst, limiterThreadVars>>
weeklyVars == <<digest_runs, wpc, wlocal, numWeekly, weeklyLog>>
connectVars == <<cpc, clocal, numCallbacks, cbLog, google_sub, lastDisconnect>>
periodVars == <<utc_hour, lastWeek>>
mailerVars == <<api_key, mpc, attempt, posts, slept, mresult, numSends>>
syncVars == <<metrics, ga4_properties, numSaves, backfills>>

None == "None"

\* ---------------------------------------------------------------------------
\* Bounds
\* ---------------------------------------------------------------------------
NumThreads == 2
MaxTokens == 2
MaxVerifies == 2
MaxTicks == 1

Threads == 1..NumThreads
Emails == {"a@x.io", "b@x.io"}
\* a token that generate_oauth_state never returned
BogusToken == MaxTokens + 1
\* the clock advances to the last second of a state's lifetime or just past it
ClockSteps == {600, 601}

\* digest scheduler: users, concurrent invocations, runs, date changes
MaxUsers == 2
NumDigestThreads == 2
MaxRuns == 3
MaxDayAdvances == 1
MaxOptUpdates == 1
\* the run starts on a Sunday, so that one date change starts a new week
FirstDay == 13

Users == 1..MaxUsers
DThreads == 1..NumDigestThreads

\* webhook ingest: requests handled in one run
MaxDeliveries == 4

\* token refresh: refresh calls made in one run
MaxRefreshes == 2

\* rate limiter: largest clock reading (seconds) and largest cost of a call
MaxReading == 2
MaxCost == 2
\* rate limiter under concurrency: allow calls started in one run
MaxCalls == 2

\* batch digest endpoint: requests made in one run
MaxWeekly == 2

\* provider connection: OAuth callbacks handled in one run
MaxCallbacks == 2

\* period computation: the hours the instant runs over (a little over two weeks)
MaxHours == 360

\* outbound email: send_email_resend calls made in one run
MaxSends == 2

\* metric sync: property saves made in one run
MaxSaves == 2

\* seeding: POST /v1/dev/seed-email-events requests made in one run
MaxSeeds == 2

\* ---------------------------------------------------------------------------
\* OAuth CSRF state cache
\* ---------------------------------------------------------------------------
\* "expires_at": now + 600
StateTTL == 600

\* v["expires_at"] < now  /  state_data["expires_at"] < time.time()
IsExpired_never(state_data, now) == FALSE
IsExpired(state_data, now) == state_data.expires_at < now

\* with oauth_state_lock: blocks until the lock is free
LockFree_always(lock) == TRUE
LockFree(lock) == lock = 0

\* del oauth_state_store[state_token]
DelState_keep(store, tok) == store
DelState(store, tok) == [k \in (DOMAIN store) \ {tok} |-> store[k]]

\* expired_keys = [k for k, v in store.items() if v["expires_at"] < now];
\* for k in expired_keys: del store[k]
CleanExpired_none(store, now) == store
CleanExpired(store, now) ==
    [k \in {j \in DOMAIN store : ~IsExpired(store[j], now)} |-> store[k]]

\* oauth_state_store[state_token] = {"email": email, "expires_at": now + 600}
PutState(store, tok, email, now) ==
    [k \in (DOMAIN store) \cup {tok} |->
        IF k = tok THEN [email |-> email, expires_at |-> now + StateTTL]
        ELSE store[k]]

\* oauth_state_store.get(state_token): the entry, or Python's None
NoState == [found |-> FALSE, email |-> None, expires_at |-> 0]
GetState(store, tok) ==
    IF tok \in DOMAIN store
    THEN [found |-> TRUE, email |-> store[tok].email, expires_at |-> store[tok].expires_at]
    ELSE NoState

\* the variables no operation of the state cache touches
outsideOAuth == <<digestVars, webhookVars, refreshVars, limiterVars, weeklyVars, connectVars, periodVars,
    mailerVars, syncVars>>

IdleLocal == [state_token |-> BogusToken, email |-> None, state_data |-> NoState]

\* generate_oauth_state: the token is computed, then with oauth_state_lock
GenAcquire(t, email) ==
    /\ opc[t] = "idle"
    /\ nextToken <= MaxTokens
    /\ LockFree(oauth_state_lock)
    /\ oauth_state_lock' = t
    /\ opc' = [opc EXCEPT ![t] = "gen_locked"]
    /\ olocal' = [olocal EXCEPT ![t] =
                    [state_token |-> nextToken, email |-> email, state_data |-> NoState]]
    /\ nextToken' = nextToken + 1
    /\ UNCHANGED <<clock, ticks, oauth_state_store, issued,
                   verifyLog, numVerifies, outsideOAuth>>

\* generate_oauth_state: clean expired states, store the new one, release the
\* lock and return the token
GenStore(t) ==
    /\ opc[t] = "gen_locked"
    /\ LET now == clock
           tok == olocal[t].state_token
       IN /\ oauth_state_store' =
                 PutState(CleanExpired(oauth_state_store, now), tok, olocal[t].email, now)
          /\ issued' = [k \in (DOMAIN issued) \cup {tok} |->
                          IF k = tok THEN [email |-> olocal[t].email, at |-> now]
                          ELSE issued[k]]
    /\ oauth_state_lock' = 0
    /\ opc' = [opc EXCEPT ![t] = "idle"]
    /\ olocal' = [olocal EXCEPT ![t] = IdleLocal]
    /\ UNCHANGED <<clock, ticks, nextToken, verifyLog, numVerifies, outsideOAuth>>

\* verify_oauth_state is called with a token some caller presents: one that
\* was returned by generate_oauth_state, or one that never was
VerifyStart(t, tok) ==
    /\ opc[t] = "idle"
    /\ numVerifies < MaxVerifies
    /\ tok \in (DOMAIN issued) \cup {BogusToken}
    /\ opc' = [opc EXCEPT ![t] = "ver_wait"]
    /\ olocal' = [olocal EXCEPT ![t] =
                    [state_token |-> tok, email |-> None, state_data |-> NoState]]
    /\ numVerifies' = numVerifies + 1
    /\ UNCHANGED <<clock, ticks, oauth_state_store, oauth_state_lock, nextToken,
                   issued, verifyLog, outsideOAuth>>

\* verify_oauth_state: with oauth_state_lock:
\* state_data = oauth_state_store.get(state_token)
VerifyGet(t) ==
    /\ opc[t] = "ver_wait"
    /\ LockFree(oauth_state_lock)
    /\ oauth_state_lock' = t
    /\ LET tok == olocal[t].state_token
       IN olocal' = [olocal EXCEPT ![t].state_data = GetState(oauth_state_store, tok)]
    /\ opc' = [opc EXCEPT ![t] = "ver_got"]
    /\ UNCHANGED <<clock, ticks, oauth_state_store, nextToken,
                   issued, verifyLog, numVerifies, outsideOAuth>>

\* the value verify_oauth_state returns for the entry it read
VerifyResult_anyone(state_data, now) ==
    IF ~state_data.found THEN None
    ELSE IF IsExpired(state_data, now) THEN None
    ELSE "a@x.io"
VerifyResult(state_data, now) ==
    IF ~state_data.found THEN None
    ELSE IF IsExpired(state_data, now) THEN None
    ELSE state_data.email

\* verify_oauth_state: absent -> None; expired -> delete, None; otherwise
\* delete and return the email.  The lock is released on return.
VerifyFinish(t) ==
    /\ opc[t] = "ver_got"
    /\ LET tok == olocal[t].state_token
           sd == olocal[t].state_data
           now == clock
           ret == VerifyResult(sd, now)
           entry == [at |-> now, ret |-> ret, present |-> sd.found,
                     overlapped |-> \E u \in Threads \ {t} :
                                       /\ opc[u] = "ver_wait"
                                       /\ olocal[u].state_token = tok]
       IN /\ oauth_state_store' =
                 IF ~sd.found THEN oauth_state_store
                 ELSE DelState(oauth_state_store, tok)
          /\ verifyLog' = [verifyLog EXCEPT ![tok] = Append(@, entry)]
    /\ oauth_state_lock' = 0
    /\ opc' = [opc EXCEPT ![t] = "idle"]
    /\ olocal' = [olocal EXCEPT ![t] = IdleLocal]
    /\ UNCHANGED <<clock, ticks, nextToken, issued, numVerifies, outsideOAuth>>

\* the wall clock advances
Tick(d) ==
    /\ ticks < MaxTicks
    /\ clock' = clock + d
    /\ ticks' = ticks + 1
    /\ UNCHANGED <<oauthVars, outsideOAuth>>

\* ---------------------------------------------------------------------------
\* Weekly digest ledger
\* ---------------------------------------------------------------------------
\* the variables no operation of the digest scheduler touches
outsideDigest == <<clockVars, oauthVars, webhookVars, refreshVars, limiterVars, weeklyVars, connectVars, periodVars,
    mailerVars, syncVars>>

\* now.weekday(): Monday = 0 ... Sunday = 6
Weekday(d) == d % 7

\* get_last_completed_week: (last_monday, last_sunday) for the date d
get_last_completed_week(d) ==
    LET current_monday == d - Weekday(d)
        last_sunday == current_monday - 1
        last_monday == last_sunday - 6
    IN <<last_monday, last_sunday>>

\* select(DigestLog).where(user_id == ..).where(period_start == ..)
\*   .where(period_end == ..).where(status == 'sent'): the matching rows
ExistingSent_any(log, user_id, period) ==
    {i \in 1..Len(log) : /\ log[i].user_id = user_id
                         /\ log[i].period_start = period[1]
                         /\ log[i].period_end = period[2]}
ExistingSent_none(log, user_id, period) == {}
ExistingSent(log, user_id, period) ==
    {i \in 1..Len(log) : /\ log[i].user_id = user_id
                         /\ log[i].period_start = period[1]
                         /\ log[i].period_end = period[2]
                         /\ log[i].status = "sent"}

\* DigestLog(user_id=.., period_start=.., period_end=.., status=.., error_message=..)
DigestLogRow_sent(user_id, period, status, error_message) ==
    [user_id |-> user_id, period_start |-> period[1], period_end |-> period[2],
     status |-> "sent", error_message |-> None]
DigestLogRow(user_id, period, status, error_message) ==
    [user_id |-> user_id, period_start |-> period[1], period_end |-> period[2],
     status |-> status, error_message |-> error_message]

\* select(User).where(User.opt_in_digest == True), in the order of the table
OptedInUsers(S) ==
    LET F[i \in 0..MaxUsers] ==
          IF i = 0 THEN << >>
          ELSE IF i \in S /\ opt_in_digest[i] THEN Append(F[i - 1], i) ELSE F[i - 1]
    IN F[MaxUsers]

NoPeriod == <<0, 0>>
ZeroResults == [total_users |-> 0, sent |-> 0, skipped |-> 0, errors |-> 0,
                error_details |-> << >>]
\* users: the rows of the select not yet iterated; selected: the rows the
\* select returned (history)
DigestIdleLocal == [users |-> << >>, selected |-> << >>, user_id |-> 0, period |-> NoPeriod,
                    results |-> ZeroResults]

\* run_weekly_digests: tally one send_weekly_digest result
Tally_silent(results, user_id, status) ==
    IF status = "sent" THEN [results EXCEPT !.sent = @ + 1]
    ELSE IF status = "skipped" THEN [results EXCEPT !.skipped = @ + 1]
    ELSE results
Tally(results, user_id, status) ==
    IF status = "sent" THEN [results EXCEPT !.sent = @ + 1]
    ELSE IF status = "skipped" THEN [results EXCEPT !.skipped = @ + 1]
    ELSE IF status = "error"
         THEN [results EXCEPT !.errors = @ + 1,
                              !.error_details = Append(@, user_id)]
    ELSE results

\* send_weekly_digest returns to the loop of run_weekly_digests; the history
\* records the call with the period it fell in
DReturn(t, period, status, message) ==
    /\ callLog' = Append(callLog, [thread |-> t, user_id |-> dlocal[t].user_id,
                                   period |-> period,
                                   status |-> status, message |-> message])
    /\ dlocal' = [dlocal EXCEPT ![t].results = Tally(@, dlocal[t].user_id, status),
                                ![t].user_id = 0,
                                ![t].period = NoPeriod]
    /\ dpc' = [dpc EXCEPT ![t] = "loop"]

\* run_weekly_digests is entered (scheduled_digest_job or
\* POST /v1/digest/scheduled-run-all): select the opted-in users
RunStart(t) ==
    /\ dpc[t] = "idle"
    /\ numRuns < MaxRuns
    /\ numRuns' = numRuns + 1
    /\ LET users == OptedInUsers(Users)
       IN dlocal' = [dlocal EXCEPT ![t] =
                       [DigestIdleLocal EXCEPT !.users = users,
                                               !.selected = users,
                                               !.results.total_users = Len(users)]]
    /\ dpc' = [dpc EXCEPT ![t] = "loop"]
    /\ UNCHANGED <<today, dayAdvances, optUpdates, opt_in_digest, last_digest_sent_at, digest_log,
                   delivered, callLog, runLog, outsideDigest>>

\* run_weekly_digests: for user in users: send_weekly_digest(str(user.id), db)
RunNext(t) ==
    /\ dpc[t] = "loop"
    /\ dlocal[t].users # << >>
    /\ dlocal' = [dlocal EXCEPT ![t].user_id = Head(dlocal[t].users),
                                ![t].users = Tail(dlocal[t].users)]
    /\ dpc' = [dpc EXCEPT ![t] = "lookup"]
    /\ UNCHANGED <<today, dayAdvances, optUpdates, opt_in_digest, last_digest_sent_at, digest_log,
                   numRuns, delivered, callLog, runLog, outsideDigest>>

\* the last n send_weekly_digest calls that returned to thread t
ByThread(t) == LET Mine(c) == c.thread = t IN SelectSeq(callLog, Mine)
LastCalls(t, n) ==
    LET mine == ByThread(t) IN SubSeq(mine, Len(mine) - n + 1, Len(mine))

\* run_weekly_digests: the loop is over, the summary is returned; the history
\* records it with the users selected and the calls made for them
RunFinish(t) ==
    /\ dpc[t] = "loop"
    /\ dlocal[t].users = << >>
    /\ runLog' = Append(runLog, [results |-> dlocal[t].results,
                                 selected |-> dlocal[t].selected,
                                 calls |-> LastCalls(t, Len(dlocal[t].selected))])
    /\ dlocal' = [dlocal EXCEPT ![t] = DigestIdleLocal]
    /\ dpc' = [dpc EXCEPT ![t] = "idle"]
    /\ UNCHANGED <<today, dayAdvances, optUpdates, opt_in_digest, last_digest_sent_at, digest_log,
                   numRuns, delivered, callLog, outsideDigest>>

\* send_weekly_digest steps 1-2: resolve the user, check the opt-in and compute
\* the period.  Users are never deleted by the program, so the user is always
\* found.
SendLookup(t) ==
    /\ dpc[t] = "lookup"
    /\ IF ~opt_in_digest[dlocal[t].user_id]
       THEN DReturn(t, get_last_completed_week(today), "skipped", "User opted out")
       ELSE /\ dlocal' = [dlocal EXCEPT ![t].period = get_last_completed_week(today)]
            /\ dpc' = [dpc EXCEPT ![t] = "check"]
            /\ UNCHANGED callLog
    /\ UNCHANGED <<today, dayAdvances, optUpdates, opt_in_digest, last_digest_sent_at,
                   digest_log, numRuns, delivered, runLog, outsideDigest>>

\* send_weekly_digest step 3: the idempotency check.  scalar_one_or_none()
\* raises MultipleResultsFound when more than one row matches; the exception
\* is outside the try block, leaves send_weekly_digest and run_weekly_digests
\* and ends the run.
SendCheck(t) ==
    /\ dpc[t] = "check"
    /\ LET existing == ExistingSent(digest_log, dlocal[t].user_id, dlocal[t].period)
       IN IF Cardinality(existing) > 1
          THEN /\ callLog' = Append(callLog,
                                [thread |-> t, user_id |-> dlocal[t].user_id,
                                 period |-> dlocal[t].period,
                                 status |-> "raised", message |-> "MultipleResultsFound"])
               /\ dlocal' = [dlocal EXCEPT ![t] = DigestIdleLocal]
               /\ dpc' = [dpc EXCEPT ![t] = "idle"]
          ELSE IF existing # {}
          THEN DReturn(t, dlocal[t].period, "skipped", "Already sent for this period")
          ELSE /\ dpc' = [dpc EXCEPT ![t] = "send"]
               /\ UNCHANGED <<dlocal, callLog>>
    /\ UNCHANGED <<today, dayAdvances, optUpdates, opt_in_digest, last_digest_sent_at, digest_log,
                   numRuns, delivered, runLog, outsideDigest>>

\* send_weekly_digest steps 4-8: collect, render and send_email_resend.  The
\* provider accepts the email, or the try block raises.
SendEmail(t, ok) ==
    /\ dpc[t] = "send"
    /\ IF ok
       THEN /\ delivered' = [delivered EXCEPT ![dlocal[t].user_id] = @ + 1]
            /\ dpc' = [dpc EXCEPT ![t] = "log_sent"]
       ELSE /\ dpc' = [dpc EXCEPT ![t] = "log_error"]
            /\ UNCHANGED delivered
    /\ UNCHANGED <<today, dayAdvances, optUpdates, opt_in_digest, last_digest_sent_at, digest_log,
                   dlocal, numRuns, callLog, runLog, outsideDigest>>

\* db.add(digest_log); db.commit(): INSERT INTO digest_log, a new row with a
\* new id after the rows the table holds
AddRow_upsert(log, row) ==
    LET same == {i \in 1..Len(log) : /\ log[i].user_id = row.user_id
                                     /\ log[i].period_start = row.period_start
                                     /\ log[i].period_end = row.period_end}
    IN IF same = {} THEN Append(log, row)
       ELSE [i \in 1..Len(log) |-> IF i \in same THEN row ELSE log[i]]
AddRow(log, row) == Append(log, row)

\* send_weekly_digest step 9: add the 'sent' row, set last_digest_sent_at, commit
SendLogSent(t) ==
    /\ dpc[t] = "log_sent"
    /\ digest_log' = AddRow(digest_log,
                            DigestLogRow(dlocal[t].user_id, dlocal[t].period, "sent", None))
    /\ last_digest_sent_at' = [last_digest_sent_at EXCEPT ![dlocal[t].user_id] = today]
    /\ DReturn(t, dlocal[t].period, "sent", "Digest sent successfully")
    /\ UNCHANGED <<today, dayAdvances, optUpdates, opt_in_digest, numRuns, delivered, runLog,
                   outsideDigest>>

\* send_weekly_digest, except branch: add the 'error' row, commit
SendLogError(t) ==
    /\ dpc[t] = "log_error"
    /\ digest_log' = AddRow(digest_log,
                            DigestLogRow(dlocal[t].user_id, dlocal[t].period, "error",
                                         "send failed"))
    /\ DReturn(t, dlocal[t].period, "error", "send failed")
    /\ UNCHANGED <<today, dayAdvances, optUpdates, opt_in_digest, last_digest_sent_at, numRuns,
                   delivered, runLog, outsideDigest>>

\* PUT /v1/digest/preferences or the unsubscribe link: UPDATE users SET opt_in_digest
SetOptIn(u, b) ==
    /\ optUpdates < MaxOptUpdates
    /\ opt_in_digest[u] # b
    /\ opt_in_digest' = [opt_in_digest EXCEPT ![u] = b]
    /\ optUpdates' = optUpdates + 1
    /\ UNCHANGED <<today, dayAdvances, last_digest_sent_at, digest_log, dpc, dlocal,
                   numRuns, delivered, callLog, runLog, outsideDigest>>

\* midnight in PT: the date changes
NextDay ==
    /\ dayAdvances < MaxDayAdvances
    /\ today' = today + 1
    /\ dayAdvances' = dayAdvances + 1
    /\ UNCHANGED <<optUpdates, opt_in_digest, last_digest_sent_at, digest_log, dpc,
                   dlocal, numRuns, delivered, callLog, runLog, outsideDigest>>

DigestIdle ==
    /\ today = FirstDay
    /\ dayAdvances = 0
    /\ optUpdates = 0
    /\ opt_in_digest = [u \in Users |-> TRUE]
    /\ last_digest_sent_at = [u \in Users |-> -1]
    /\ digest_log = << >>
    /\ dpc = [t \in DThreads |-> "idle"]
    /\ dlocal = [t \in DThreads |-> DigestIdleLocal]
    /\ numRuns = 0
    /\ delivered = [u \in Users |-> 0]
    /\ callLog = << >>
    /\ runLog = << >>

\* ---------------------------------------------------------------------------
\* Period computation
\* ---------------------------------------------------------------------------
\* the variables get_last_completed_week does not touch
outsidePeriod == <<clockVars, oauthVars, digestVars, webhookVars, refreshVars, limiterVars,
                   weeklyVars, connectVars, mailerVars, syncVars>>

Timezones == {"America/Los_Angeles", "UTC"}

\* daylight saving time begins in Los Angeles on the first Sunday of the run at
\* 02:00 local time, which is 10:00 UTC
DstStartHour == 6 * 24 + 10

\* ZoneInfo(tz).utcoffset at the instant, in hours
UtcOffset(tz, instant) ==
    IF tz = "UTC" THEN 0
    ELSE IF instant < DstStartHour THEN 0 - 8 ELSE 0 - 7

\* datetime.now(timezone).date(): the local date, as a day number
LocalDate_utc(tz, instant) == instant \div 24
LocalDate(tz, instant) == (instant + UtcOffset(tz, instant)) \div 24

NoWeek == [called |-> FALSE, tz |-> None, at |-> 0, start |-> 0, end |-> 0]

\* get_last_completed_week(tz) is called at the current instant
CallLastCompletedWeek(tz) ==
    /\ LET week == get_last_completed_week(LocalDate(tz, utc_hour))
       IN lastWeek' = [called |-> TRUE, tz |-> tz, at |-> utc_hour,
                       start |-> week[1], end |-> week[2]]
    /\ UNCHANGED <<utc_hour, outsidePeriod>>

\* time passes
Elapse(h) ==
    /\ utc_hour + h <= MaxHours
    /\ utc_hour' = utc_hour + h
    /\ UNCHANGED <<lastWeek, outsidePeriod>>

PeriodIdle ==
    /\ utc_hour = 24
    /\ lastWeek = NoWeek

\* ---------------------------------------------------------------------------
\* Resend webhook ingest
\* ---------------------------------------------------------------------------
\* the variables no operation of the webhook ingest touches
outsideWebhook == <<clockVars, oauthVars, digestVars, refreshVars, limiterVars, weeklyVars, connectVars, periodVars,
    mailerVars, syncVars>>

\* Python truthiness of an optional string: None and "" are falsy
Truthy(x) == x \notin {None, ""}
\* x or y
Or(x, y) == IF Truthy(x) THEN x ELSE y

\* the "to" field of a payload: absent, a string or a list of strings
NoTo == [kind |-> "none", items |-> << >>]
ToStr(a) == [kind |-> "str", items |-> <<a>>]
ToList(l) == [kind |-> "list", items |-> l]
ToTruthy(to) ==
    \/ to.kind = "str" /\ Truthy(to.items[1])
    \/ to.kind = "list" /\ to.items # << >>

\* the "data" object of a payload; payload.get("data") or {}
NoData == [id |-> None, to |-> NoTo, subject |-> None]
\* a parsed JSON object: the fields the handler reads
Payload(type, id, to, email, subject, data) ==
    [type |-> type, id |-> id, to |-> to, email |-> email, subject |-> subject,
     data |-> data]
EmptyPayload == Payload(None, None, NoTo, None, None, NoData)

\* The request bodies: raw names the exact bytes, json says whether
\* json.loads accepts them, payload is the parsed object.
Bodies ==
    << \* {"type": "email.delivered", "id": "evt_1", "to": "a@x.io"}
       [raw |-> 1, json |-> TRUE,
        payload |-> Payload("email.delivered", "evt_1", ToStr("a@x.io"), None, "Hi", NoData)],
       \* the same event, serialised differently by the provider
       [raw |-> 2, json |-> TRUE,
        payload |-> Payload("email.delivered", "evt_1", ToStr("a@x.io"), None, "Hi", NoData)],
       \* {"type": "email.opened", "data": {"id": "evt_1", "to": ["b@x.io"]}}
       [raw |-> 3, json |-> TRUE,
        payload |-> Payload("email.opened", None, NoTo, None, None,
                            [id |-> "evt_1", to |-> ToList(<<"b@x.io">>), subject |-> "Yo"])],
       \* {"id": "", "email": "b@x.io", "data": {"id": "evt_2", "to": []}}
       [raw |-> 4, json |-> TRUE,
        payload |-> Payload(None, "", NoTo, "b@x.io", None,
                            [id |-> "evt_2", to |-> ToList(<< >>), subject |-> None])],
       \* {} : no id anywhere
       [raw |-> 5, json |-> TRUE, payload |-> EmptyPayload],
       \* {"type": "email.bounced", "to": []} : no id, other bytes
       [raw |-> 6, json |-> TRUE,
        payload |-> Payload("email.bounced", None, ToList(<< >>), None, None, NoData)],
       \* bytes that are not JSON
       [raw |-> 7, json |-> FALSE, payload |-> EmptyPayload] >>

\* hashlib.sha256(raw_body).hexdigest(): one digest per byte string
Sha256Hex(raw) ==
    <<"sha256_1", "sha256_2", "sha256_3", "sha256_4", "sha256_5", "sha256_6",
      "sha256_7">>[raw]

\* hmac.new(secret, raw_body, sha256).hexdigest(): determined by key and bytes
HmacHex(secret, raw) == [key |-> secret, raw |-> raw]
\* request.headers.get("X-Resend-Signature"): absent, or empty
NoSignature == [key |-> None, raw |-> 0]
EmptySignature == [key |-> "", raw |-> 0]
SigTruthy(signature) == signature \notin {NoSignature, EmptySignature}

\* the secrets RESEND_WEBHOOK_SECRET may hold: unset, empty, set
Secrets == {None, "", "whsec_live"}
\* the signature headers a request for the body b may carry
SignaturesFor(b) ==
    {NoSignature, EmptySignature,
     HmacHex("whsec_live", b.raw),
     HmacHex("whsec_other", b.raw),
     HmacHex("whsec_live", (b.raw % Len(Bodies)) + 1)}

\* hmac.compare_digest(computed, signature)
CompareDigest_any(computed, signature) == TRUE
CompareDigest(computed, signature) == computed = signature

\* event_type = payload.get("type") or "unknown"
EventType(payload) == Or(payload.type, "unknown")

\* provider_id = payload.get("id") or (payload.get("data") or {}).get("id");
\* if not provider_id: provider_id = sha256(raw_body).hexdigest()
ProviderId(payload, raw) ==
    LET provider_id == Or(payload.id, payload.data.id)
    IN IF Truthy(provider_id) THEN provider_id ELSE Sha256Hex(raw)

\* email = payload.get("to") or payload.get("email")
\*         or (payload.get("data") or {}).get("to") or "unknown";
\* a list is replaced by its first element, or "unknown" when empty
EmailOf(payload) ==
    LET FromTo(to) == IF to.kind = "list"
                      THEN (IF to.items # << >> THEN to.items[1] ELSE "unknown")
                      ELSE to.items[1]
    IN IF ToTruthy(payload.to) THEN FromTo(payload.to)
       ELSE IF Truthy(payload.email) THEN payload.email
       ELSE IF ToTruthy(payload.data.to) THEN FromTo(payload.data.to)
       ELSE "unknown"

\* subject = payload.get("subject") or (payload.get("data") or {}).get("subject")
SubjectOf(payload) ==
    IF Truthy(payload.subject) THEN payload.subject ELSE payload.data.subject

\* INSERT INTO email_events(...) VALUES (...) ON CONFLICT (provider_id) DO
\* NOTHING, against the unique index email_events_provider_unique that
\* on_startup creates
InsertEvent_always(table, row) == Append(table, row)
InsertEvent(table, row) ==
    IF \E i \in 1..Len(table) : table[i].provider_id = row.provider_id
    THEN table
    ELSE Append(table, row)

\* except Exception as e: logging.error(...), then return {"ok": True}: the
\* status after the store step, whether db.execute and db.commit succeeded
StoredStatus_raise(db_ok) == IF db_ok THEN 200 ELSE 500
StoredStatus(db_ok) == 200

\* the status and the table after resend_webhook has handled a request;
\* db_ok: the INSERT and the commit succeed
WebhookOutcome_parsefirst(secret, b, signature, table, db_ok) ==
    IF ~Truthy(secret) THEN [status |-> 500, table |-> table]
    ELSE IF ~SigTruthy(signature) THEN [status |-> 400, table |-> table]
    ELSE IF ~b.json THEN [status |-> 400, table |-> table]
    ELSE IF ~CompareDigest(HmacHex(secret, b.raw), signature)
         THEN [status |-> 403, table |-> table]
    ELSE [status |-> StoredStatus(db_ok),
          table |-> IF ~db_ok THEN table
                    ELSE InsertEvent(table,
                             [email |-> EmailOf(b.payload),
                              event_type |-> EventType(b.payload),
                              provider_id |-> ProviderId(b.payload, b.raw),
                              subject |-> SubjectOf(b.payload),
                              payload |-> b.raw])]
WebhookOutcome(secret, b, signature, table, db_ok) ==
    IF ~Truthy(secret) THEN [status |-> 500, table |-> table]
    ELSE IF ~SigTruthy(signature) THEN [status |-> 400, table |-> table]
    ELSE IF ~CompareDigest(HmacHex(secret, b.raw), signature)
         THEN [status |-> 403, table |-> table]
    ELSE IF ~b.json THEN [status |-> 400, table |-> table]
    ELSE [status |-> StoredStatus(db_ok),
          table |-> IF ~db_ok THEN table
                    ELSE InsertEvent(table,
                             [email |-> EmailOf(b.payload),
                              event_type |-> EventType(b.payload),
                              provider_id |-> ProviderId(b.payload, b.raw),
                              subject |-> SubjectOf(b.payload),
                              payload |-> b.raw])]

\* the request carries the hex HMAC-SHA256 of its exact body under the
\* configured secret
Authentic(secret, b, signature) ==
    /\ Truthy(secret)
    /\ signature = [key |-> secret, raw |-> b.raw]

\* POST /v1/webhooks/resend
resend_webhook(b, signature, db_ok) ==
    /\ numDeliveries < MaxDeliveries
    /\ numDeliveries' = numDeliveries + 1
    /\ LET out == WebhookOutcome(webhook_secret, b, signature, email_events, db_ok)
       IN /\ email_events' = out.table
          /\ whLog' = Append(whLog,
                        [signed |-> SigTruthy(signature),
                         authentic |-> Authentic(webhook_secret, b, signature),
                         json |-> b.json,
                         provider_id |-> IF out.status = 200
                                         THEN ProviderId(b.payload, b.raw)
                                         ELSE None,
                         synthetic |-> out.status = 200
                                         /\ ~Truthy(Or(b.payload.id, b.payload.data.id)),
                         status |-> out.status,
                         db_error |-> ~db_ok /\ b.json
                                        /\ Authentic(webhook_secret, b, signature),
                         wrote |-> out.table # email_events])
    /\ UNCHANGED <<webhook_secret, numSeeds, outsideWebhook>>

WebhookIdle ==
    /\ webhook_secret = "whsec_live"
    /\ email_events = << >>
    /\ numDeliveries = 0
    /\ numSeeds = 0
    /\ whLog = << >>

\* ---------------------------------------------------------------------------
\* Outbound email
\* ---------------------------------------------------------------------------
\* the variables send_email_resend does not touch
outsideMailer == <<clockVars, oauthVars, digestVars, webhookVars, refreshVars, limiterVars,
                   weeklyVars, connectVars, periodVars, syncVars>>

\* max_retries = 3; retry_delays = [0.5, 1.0, 2.0], in tenths of a second
max_retries == 3
retry_delays == <<5, 10, 20>>

\* what client.post meets: a response with a status code, httpx.TimeoutException,
\* httpx.ConnectError, or another exception (httpx.ReadError, ...)
PostStatuses == {200, 302, 400, 404, 422, 429, 500, 503}
PostErrors == {"timeout", "connect", "other"}
Response(status) == [kind |-> "response", status |-> status]
PostError(e) == [kind |-> e, status |-> 0]
PostOutcomes == {Response(c) : c \in PostStatuses} \cup {PostError(e) : e \in PostErrors}

\* res.status_code == 429 or res.status_code >= 500
RetryableStatus_any(status) == status >= 400
RetryableStatus(status) == status = 429 \/ status >= 500

\* except (httpx.TimeoutException, httpx.ConnectError)
NetworkError(o) == o.kind \in {"timeout", "connect"}

\* attempt < max_retries - 1
MoreAttempts(n) == n < max_retries - 1

NoResult == [kind |-> "none", detail |-> None]
Returned(status) == [kind |-> "returned", detail |-> status]
Raised(exception, detail) == [kind |-> exception, detail |-> detail]

\* send_email_resend(to_email, subject, html_body) is called: without an API
\* key it raises before the loop, otherwise the loop starts with attempt 0
send_email_resend ==
    /\ mpc \in {"idle", "done"}
    /\ numSends < MaxSends
    /\ numSends' = numSends + 1
    /\ posts' = << >>
    /\ slept' = 0
    /\ attempt' = 0
    /\ IF ~Truthy(api_key)
       THEN /\ mresult' = Raised("RuntimeError", "Missing RESEND_API_KEY")
            /\ mpc' = "done"
       ELSE /\ mresult' = NoResult
            /\ mpc' = "post"
    /\ UNCHANGED <<api_key, outsideMailer>>

\* one pass of the loop body: client.post with timeout=15 and what follows
MailerPost(o) ==
    /\ mpc = "post"
    /\ posts' = Append(posts, o)
    /\ IF o.kind = "response"
       THEN IF o.status < 400
            THEN mresult' = Returned(o.status) /\ mpc' = "done"
            ELSE IF RetryableStatus(o.status) /\ MoreAttempts(attempt)
            THEN mresult' = mresult /\ mpc' = "sleep"
            ELSE mresult' = Raised("RuntimeError", "Resend error") /\ mpc' = "done"
       ELSE IF NetworkError(o)
            THEN IF MoreAttempts(attempt)
                 THEN mresult' = mresult /\ mpc' = "sleep"
                 ELSE mresult' = Raised("RuntimeError", "Resend network error") /\ mpc' = "done"
            ELSE mresult' = Raised("Exception", o.kind) /\ mpc' = "done"
    /\ UNCHANGED <<api_key, attempt, slept, numSends, outsideMailer>>

\* time.sleep(retry_delays[attempt]); continue: the next pass of
\* for attempt in range(max_retries), or the raise that follows the loop
MailerSleep ==
    /\ mpc = "sleep"
    /\ slept' = slept + retry_delays[attempt + 1]
    /\ attempt' = attempt + 1
    /\ IF attempt + 1 < max_retries
       THEN mresult' = mresult /\ mpc' = "post"
       ELSE mresult' = Raised("RuntimeError", "Resend failed") /\ mpc' = "done"
    /\ UNCHANGED <<api_key, posts, numSends, outsideMailer>>

MailerIdle ==
    /\ api_key = "re_key"
    /\ mpc = "idle"
    /\ attempt = 0
    /\ posts = << >>
    /\ slept = 0
    /\ mresult = NoResult
    /\ numSends = 0

\* ---------------------------------------------------------------------------
\* Provider token refresh
\* ---------------------------------------------------------------------------
\* the variables no refresh touches
outsideRefresh == <<oauthVars, digestVars, webhookVars, limiterVars, weeklyVars, connectVars, periodVars,
    mailerVars, syncVars>>

Providers == {"google_analytics", "instagram"}
\* positions in the data_sources table: one row per user and provider
RowIds == 1..(MaxUsers * Cardinality(Providers))

\* a NULL expires_at
NullTime == 0 - 1
\* timedelta(minutes=5), timedelta(days=7), in seconds
GoogleBuffer == 300
InstagramBuffer == 604800
\* tokens.get("expires_in", 3600) / tokens.get("expires_in", 5184000)
GoogleDefaultExpiresIn == 3600
InstagramDefaultExpiresIn == 5184000

\* data_source.expires_at and data_source.expires_at > now + buffer
StillValid_nobuffer(expires_at, now, buffer) ==
    expires_at # NullTime /\ expires_at > now
StillValid(expires_at, now, buffer) ==
    expires_at # NullTime /\ expires_at > now + buffer

\* what the provider's token endpoint answers: a transport error or non-2xx
\* status (requests.RequestException), or a 2xx body with or without an
\* access_token and with or without expires_in
NoExpiresIn == 0 - 1
UpstreamAnswers ==
    {[ok |-> FALSE, access_token |-> None, expires_in |-> NoExpiresIn]}
        \cup [ok : {TRUE}, access_token : {None, "at_new"},
              expires_in : {NoExpiresIn, 60, 5184000}]

\* a data_sources row
DataSource(user_id, source_name, account_ref, access_token, refresh_token, expires_at, updated_at) ==
    [user_id |-> user_id, source_name |-> source_name, account_ref |-> account_ref,
     access_token |-> access_token, refresh_token |-> refresh_token,
     expires_at |-> expires_at, updated_at |-> updated_at]

\* the record of one refresh call
RefreshCall(pre, now, status, token, upstream, post) ==
    [called |-> TRUE, pre |-> pre, now |-> now, status |-> status, token |-> token,
     upstream |-> upstream, post |-> post]
NoRow == DataSource(0, None, None, None, None, NullTime, NullTime)
NoRefresh == [called |-> FALSE, pre |-> NoRow, now |-> 0, status |-> 0, token |-> None,
              upstream |-> 0, post |-> NoRow]

\* the token endpoint was not asked
NoAnswer == [asked |-> FALSE, ok |-> FALSE, access_token |-> None, expires_in |-> NoExpiresIn]
\* what it answered when the call reached it, and the grant the answer
\* carried: the token and, with a token, its lifetime
AnswerTo(out, ans) ==
    IF out.upstream = 0 THEN NoAnswer
    ELSE [asked |-> TRUE, ok |-> ans.ok, access_token |-> ans.access_token,
          expires_in |-> IF Truthy(ans.access_token) THEN ans.expires_in ELSE NoExpiresIn]

\* the outcome of a refresh that reached the token endpoint and got answer ans:
\* RequestException -> 401; no access_token -> 500; otherwise the row gets the
\* new token, expires_at = now + expires_in and updated_at = now, is committed,
\* and the new token is returned
UpstreamFailed_stale(row, now) == RefreshCall(row, now, 200, row.access_token, 1, row)
UpstreamFailed(row, now) == RefreshCall(row, now, 401, None, 1, row)

AfterUpstream_rotate(row, now, ans, default_expires_in) ==
    IF ~ans.ok THEN UpstreamFailed(row, now)
    ELSE IF ~Truthy(ans.access_token) THEN RefreshCall(row, now, 500, None, 1, row)
    ELSE LET expires_in == IF ans.expires_in = NoExpiresIn
                           THEN default_expires_in ELSE ans.expires_in
             post == [row EXCEPT !.access_token = ans.access_token,
                                 !.refresh_token = None,
                                 !.expires_at = now + expires_in,
                                 !.updated_at = now]
         IN RefreshCall(row, now, 200, ans.access_token, 1, post)
AfterUpstream(row, now, ans, default_expires_in) ==
    IF ~ans.ok THEN UpstreamFailed(row, now)
    ELSE IF ~Truthy(ans.access_token) THEN RefreshCall(row, now, 500, None, 1, row)
    ELSE LET expires_in == IF ans.expires_in = NoExpiresIn
                           THEN default_expires_in ELSE ans.expires_in
             post == [row EXCEPT !.access_token = ans.access_token,
                                 !.expires_at = now + expires_in,
                                 !.updated_at = now]
         IN RefreshCall(row, now, 200, ans.access_token, 1, post)

\* not data_source.refresh_token
NoRefreshToken_never(row) == FALSE
NoRefreshToken(row) == ~Truthy(row.refresh_token)

\* refresh_google_token(data_source, db) with the endpoint answering ans
GoogleRefreshOutcome(row, now, configured, ans) ==
    IF ~configured THEN RefreshCall(row, now, 500, None, 0, row)
    ELSE IF StillValid(row.expires_at, now, GoogleBuffer)
         THEN RefreshCall(row, now, 200, row.access_token, 0, row)
    ELSE IF NoRefreshToken(row) THEN RefreshCall(row, now, 401, None, 0, row)
    ELSE AfterUpstream(row, now, ans, GoogleDefaultExpiresIn)

\* refresh_instagram_token(data_source, db) with the endpoint answering ans
InstagramRefreshOutcome_extend(row, now, configured, ans) ==
    IF ~configured THEN RefreshCall(row, now, 500, None, 0, row)
    ELSE IF StillValid(row.expires_at, now, InstagramBuffer)
         THEN RefreshCall(row, now, 200, row.access_token, 0, row)
    ELSE LET out == AfterUpstream(row, now, ans, InstagramDefaultExpiresIn)
         IN IF out.status # 200 \/ ans.expires_in = NoExpiresIn \/ row.expires_at = NullTime
            THEN out
            ELSE [out EXCEPT !.post.expires_at = row.expires_at + ans.expires_in]
InstagramRefreshOutcome(row, now, configured, ans) ==
    IF ~configured THEN RefreshCall(row, now, 500, None, 0, row)
    ELSE IF StillValid(row.expires_at, now, InstagramBuffer)
         THEN RefreshCall(row, now, 200, row.access_token, 0, row)
    ELSE AfterUpstream(row, now, ans, InstagramDefaultExpiresIn)

\* refresh_google_token is called on the row i (sync or property listing)
refresh_google_token(i, ans) ==
    /\ numRefreshes < MaxRefreshes
    /\ i \in 1..Len(data_sources)
    /\ data_sources[i].source_name = "google_analytics"
    /\ LET out == GoogleRefreshOutcome(data_sources[i], clock,
                                       oauth_configured["google_analytics"], ans)
       IN /\ data_sources' = [data_sources EXCEPT ![i] = out.post]
          /\ lastRefresh' = [lastRefresh EXCEPT !["google_analytics"] = out]
          /\ lastAnswer' = [lastAnswer EXCEPT !["google_analytics"] = AnswerTo(out, ans)]
    /\ numRefreshes' = numRefreshes + 1
    /\ UNCHANGED <<clockVars, oauth_configured, outsideRefresh>>

\* refresh_instagram_token is called on the row i (sync or manual refresh)
refresh_instagram_token(i, ans) ==
    /\ numRefreshes < MaxRefreshes
    /\ i \in 1..Len(data_sources)
    /\ data_sources[i].source_name = "instagram"
    /\ LET out == InstagramRefreshOutcome(data_sources[i], clock,
                                          oauth_configured["instagram"], ans)
       IN /\ data_sources' = [data_sources EXCEPT ![i] = out.post]
          /\ lastRefresh' = [lastRefresh EXCEPT !["instagram"] = out]
          /\ lastAnswer' = [lastAnswer EXCEPT !["instagram"] = AnswerTo(out, ans)]
    /\ numRefreshes' = numRefreshes + 1
    /\ UNCHANGED <<clockVars, oauth_configured, outsideRefresh>>

\* no provider connected yet
RefreshIdle ==
    /\ oauth_configured = [p \in Providers |-> TRUE]
    /\ data_sources = << >>
    /\ numRefreshes = 0
    /\ lastRefresh = [p \in Providers |-> NoRefresh]
    /\ lastAnswer = [p \in Providers |-> NoAnswer]

\* the clock advances by a second, by a safety buffer, or by a token lifetime
RefreshClockSteps == {1, GoogleBuffer, InstagramBuffer}
\* the expiry a stored credential may carry when the run starts (clock = 0)
StoredExpiries ==
    {NullTime, 0, GoogleBuffer, GoogleBuffer + 1, InstagramBuffer, InstagramBuffer + 1}

\* ---------------------------------------------------------------------------
\* Provider connection (OAuth init and callback routes)
\* ---------------------------------------------------------------------------
\* the variables no connection route touches, and those only the callback's
\* save and the property save touch
outsideCallback == <<digestVars, webhookVars, limiterVars, weeklyVars, periodVars,
    mailerVars>>
outsideConnect == <<outsideCallback, syncVars>>

\* users.id of the user with this email
UserIdOf(email) == IF email = "a@x.io" THEN 1 ELSE 2

\* what Instagram account discovery finds: the pages request fails, the user
\* manages no page, no managed page has a linked Instagram Business account
\* (or every page lookup fails), or a page has one
PageAnswers == {"failed", "none", "unlinked", "linked"}

\* what the provider answers to the code exchange: a transport error or
\* non-2xx status, or a 2xx body that may lack access_token, refresh_token and
\* expires_in; pages is what the discovery requests of the Instagram callback
\* find afterwards
CallbackAnswers ==
    {[ok |-> FALSE, access_token |-> None, refresh_token |-> None,
      expires_in |-> NoExpiresIn, pages |-> "failed"]}
        \cup [ok : {TRUE}, access_token : {None, "at_cb"},
              refresh_token : {None, "rt_cb"}, expires_in : {NoExpiresIn, 60},
              pages : PageAnswers]

ConnectIdleLocal ==
    [provider |-> None, state |-> 0, email |-> None, access_token |-> None,
     refresh_token |-> None, expires_at |-> NullTime, existing |-> 0,
     is_first_connection |-> FALSE]

\* RedirectResponse(f"{FRONTEND_URL}/connect/callback?provider=..&status=..")
Redirect(status) == [kind |-> "redirect", code |-> 307, status |-> status, detail |-> FALSE]
\* HTTPException(status_code=code, detail=..), or an exception no handler
\* catches (500 Internal Server Error); detail: the body quotes str(e)
HttpError(code, detail) == [kind |-> "http", code |-> code, status |-> None, detail |-> detail]

\* a callback is answered; the history records what ended it, whether the
\* token exchange was sent and whether data_sources was written
Answered(t, provider, state, cause, response, exchanged, wrote) ==
    cbLog' = Append(cbLog, [provider |-> provider, state |-> state,
                            cause |-> cause, response |-> response,
                            exchanged |-> exchanged, wrote |-> wrote])

\* ig_user_id: the id of the Instagram Business account of the first linked page
IgUserId(ans) == IF ans.pages = "linked" THEN "ig_17" ELSE None

\* what stops the callback between the code exchange and the computation of
\* expires_at, None when nothing does
ExchangeFailure_lenient(provider, ans) ==
    IF ~ans.ok THEN "exchange"
    ELSE IF ~Truthy(ans.access_token) THEN "no_token"
    ELSE None
ExchangeFailure(provider, ans) ==
    IF ~ans.ok THEN "exchange"
    ELSE IF ~Truthy(ans.access_token) THEN "no_token"
    ELSE IF provider = "google_analytics" THEN None
    ELSE IF ans.pages = "failed" THEN "pages_failed"
    ELSE IF ans.pages = "none" THEN "no_pages"
    ELSE IF ~Truthy(IgUserId(ans)) THEN "no_account"
    ELSE None

\* the answer to a callback stopped by cause: the Google callback redirects,
\* the Instagram callback raises HTTPException
FailureResponse(provider, cause) ==
    IF provider = "google_analytics" THEN Redirect("error")
    ELSE IF cause \in {"exchange", "pages_failed"} THEN HttpError(500, TRUE)
    ELSE IF cause = "no_token" THEN HttpError(500, FALSE)
    ELSE HttpError(400, FALSE)

\* google_oauth_init / instagram_oauth_init for a known user:
\* state_token = generate_oauth_state(email), then the redirect
oauth_init(provider, email) ==
    /\ oauth_configured[provider]
    /\ nextToken <= MaxTokens
    /\ LockFree(oauth_state_lock)
    /\ LET now == clock
       IN /\ oauth_state_store' =
                 PutState(CleanExpired(oauth_state_store, now), nextToken, email, now)
          /\ issued' = [k \in (DOMAIN issued) \cup {nextToken} |->
                          IF k = nextToken THEN [email |-> email, at |-> now]
                          ELSE issued[k]]
    /\ nextToken' = nextToken + 1
    /\ UNCHANGED <<clockVars, oauth_state_lock, opc, olocal, verifyLog, numVerifies,
                   refreshVars, connectVars, outsideConnect>>

\* the callback up to the user lookup: configuration check,
\* email = verify_oauth_state(state), user lookup (users are never deleted)
CallbackVerify(t, provider, state) ==
    /\ cpc[t] = "idle"
    /\ numCallbacks < MaxCallbacks
    /\ oauth_configured[provider]
    /\ state \in (DOMAIN issued) \cup {BogusToken}
    /\ LockFree(oauth_state_lock)
    /\ numCallbacks' = numCallbacks + 1
    /\ LET state_data == GetState(oauth_state_store, state)
           email == VerifyResult(state_data, clock)
       IN /\ oauth_state_store' =
                 IF state_data.found THEN DelState(oauth_state_store, state)
                 ELSE oauth_state_store
          /\ IF email = None
             THEN /\ Answered(t, provider, state, "state", Redirect("error"), FALSE, FALSE)
                  /\ UNCHANGED <<cpc, clocal>>
             ELSE /\ cpc' = [cpc EXCEPT ![t] = "exchange"]
                  /\ clocal' = [clocal EXCEPT ![t] =
                                  [ConnectIdleLocal EXCEPT !.provider = provider,
                                                           !.state = state,
                                                           !.email = email]]
                  /\ UNCHANGED cbLog
    /\ UNCHANGED <<clockVars, oauth_state_lock, opc, olocal, nextToken, issued,
                   verifyLog, numVerifies, refreshVars, google_sub, lastDisconnect,
                   outsideConnect>>

\* the code exchange and what follows it up to the computation of
\* expires_at; every failure ends the request
CallbackExchange(t, ans) ==
    /\ cpc[t] = "exchange"
    /\ LET l == clocal[t]
           google == l.provider = "google_analytics"
           cause == ExchangeFailure(l.provider, ans)
           expires_in == IF ans.expires_in # NoExpiresIn THEN ans.expires_in
                         ELSE IF google THEN GoogleDefaultExpiresIn
                         ELSE InstagramDefaultExpiresIn
       IN IF cause = None
          THEN /\ clocal' = [clocal EXCEPT ![t].access_token = ans.access_token,
                                           ![t].refresh_token =
                                               IF google THEN ans.refresh_token
                                               ELSE IgUserId(ans),
                                           ![t].expires_at = clock + expires_in]
               /\ cpc' = [cpc EXCEPT ![t] = "select"]
               /\ UNCHANGED cbLog
          ELSE /\ Answered(t, l.provider, l.state, cause,
                           FailureResponse(l.provider, cause), TRUE, FALSE)
               /\ clocal' = [clocal EXCEPT ![t] = ConnectIdleLocal]
               /\ cpc' = [cpc EXCEPT ![t] = "idle"]
    /\ UNCHANGED <<clockVars, oauthVars, refreshVars, numCallbacks, google_sub, lastDisconnect,
                   outsideConnect>>

\* the positions of the data_sources rows of (user_id, source_name)
RowsOf(rows, user_id, source_name) ==
    {i \in 1..Len(rows) : rows[i].user_id = user_id /\ rows[i].source_name = source_name}

\* Metric.source_name of the rows the GA4 sync and the Instagram sync insert
MetricSources == {"google", "instagram"}
SourceOf(provider) == IF provider = "google_analytics" THEN "google" ELSE "instagram"

\* what a sync meets: the answer of the token endpoint (asked only when the
\* stored token is due for refresh), and what the reporting API and the final
\* commit then do.  The sync raises when the commit fails; it returns status
\* success with metrics_inserted = 0 when the provider reports nothing for
\* the range (for Instagram also when every daily request failed, which is
\* logged and skipped)
SyncInputs ==
    {sync \in [ans : UpstreamAnswers, status : {"raised", "success"},
               metrics_inserted : {0, 2}] :
        sync.status = "raised" => sync.metrics_inserted = 0}
\* the provider is unreachable: token endpoint and reporting API fail
SyncDown ==
    [ans |-> [ok |-> FALSE, access_token |-> None, expires_in |-> NoExpiresIn],
     status |-> "raised", metrics_inserted |-> 0]

\* run_ga4_sync_internal / run_instagram_sync_internal(user, db, days): the
\* data source is selected with scalar_one_or_none() (no row: 404, several:
\* MultipleResultsFound), the token is refreshed if due (its failure is
\* raised, its success is committed), then the metrics are fetched, added
\* and committed
SyncResult(rows, user_id, provider, now, configured, sync) ==
    LET found == RowsOf(rows, user_id, provider)
        raised == [rows |-> rows, status |-> "raised", metrics_inserted |-> 0]
    IN IF Cardinality(found) # 1 THEN raised
       ELSE LET i == CHOOSE k \in found : TRUE
                out == IF provider = "google_analytics"
                       THEN GoogleRefreshOutcome(rows[i], now, configured, sync.ans)
                       ELSE InstagramRefreshOutcome(rows[i], now, configured, sync.ans)
            IN IF out.status # 200 THEN raised
               ELSE [rows |-> [rows EXCEPT ![i] = out.post], status |-> sync.status,
                     metrics_inserted |-> sync.metrics_inserted]

\* the metrics table after a sync of (user_id, source) that ended as result
AfterSync(table, user_id, source, result) ==
    [table EXCEPT ![user_id][source] = @ + result.metrics_inserted]

\* the 30-day syncs of (user_id, source) that returned, after one more ended
\* as result
Backfilled(count, user_id, source, result) ==
    IF result.status = "success" THEN [count EXCEPT ![user_id][source] = @ + 1]
    ELSE count

\* existing_metrics_count == 0
NoMetrics(user_id, source) == metrics[user_id][source] = 0

\* the Instagram callback counts the user's Instagram metrics
\* (is_first_connection); then, in both callbacks,
\* existing = db.execute(select(DataSource).where(...)).scalar_one_or_none():
\* MultipleResultsFound when more than one row matches
CallbackSelect(t) ==
    /\ cpc[t] = "select"
    /\ LET found == RowsOf(data_sources, UserIdOf(clocal[t].email), clocal[t].provider)
       IN IF Cardinality(found) > 1
          THEN /\ Answered(t, clocal[t].provider, clocal[t].state, "lookup",
                           HttpError(500, FALSE), TRUE, FALSE)
               /\ clocal' = [clocal EXCEPT ![t] = ConnectIdleLocal]
               /\ cpc' = [cpc EXCEPT ![t] = "idle"]
          ELSE /\ clocal' = [clocal EXCEPT
                              ![t].existing =
                                  IF found = {} THEN 0 ELSE CHOOSE i \in found : TRUE,
                              ![t].is_first_connection =
                                  /\ clocal[t].provider = "instagram"
                                  /\ NoMetrics(UserIdOf(clocal[t].email), "instagram")]
               /\ cpc' = [cpc EXCEPT ![t] = "save"]
               /\ UNCHANGED cbLog
    /\ UNCHANGED <<clockVars, oauthVars, refreshVars, numCallbacks, google_sub, lastDisconnect,
                   outsideConnect>>

\* account_ref: the email for Google, the Instagram username for Instagram
AccountRef(l) == IF l.provider = "google_analytics" THEN l.email ELSE "ig_user"

\* existing: the row the callback selected was deleted since
StaleRow == 0 - 1

\* the existing row is updated, or a new one is added; db.commit(), which may
\* fail and is then rolled back.  The UPDATE of a row a disconnect deleted in
\* the meantime matches no row, and the commit fails (StaleDataError).  After
\* the commit the Instagram callback runs the 30-day sync if
\* is_first_connection, swallowing what it raises, and redirects to success
\* either way.
CallbackSave(t, committed, sync) ==
    /\ cpc[t] = "save"
    /\ (clocal[t].existing = StaleRow => ~committed)
    /\ LET l == clocal[t]
           now == clock
           user_id == UserIdOf(l.email)
           row == DataSource(user_id, l.provider, AccountRef(l),
                             l.access_token, l.refresh_token, l.expires_at, now)
           saved == IF ~committed THEN data_sources
                    ELSE IF l.existing = 0 THEN Append(data_sources, row)
                    ELSE [data_sources EXCEPT ![l.existing] = row]
           result == SyncResult(saved, user_id, l.provider, now,
                                oauth_configured[l.provider], sync)
       IN IF committed /\ l.is_first_connection
          THEN /\ data_sources' = result.rows
               /\ metrics' = AfterSync(metrics, user_id, SourceOf(l.provider), result)
               /\ backfills' = Backfilled(backfills, user_id, SourceOf(l.provider), result)
          ELSE /\ data_sources' = saved
               /\ UNCHANGED <<metrics, backfills>>
    /\ IF committed
       THEN Answered(t, clocal[t].provider, clocal[t].state, None,
                     Redirect("success"), TRUE, TRUE)
       ELSE Answered(t, clocal[t].provider, clocal[t].state, "database",
                     Redirect("error"), TRUE, FALSE)
    /\ clocal' = [clocal EXCEPT ![t] = ConnectIdleLocal]
    /\ cpc' = [cpc EXCEPT ![t] = "idle"]
    /\ UNCHANGED <<clockVars, oauthVars, oauth_configured, numRefreshes, lastRefresh,
                   lastAnswer, numCallbacks, google_sub, lastDisconnect, ga4_properties,
                   numSaves, outsideCallback>>

\* the property a user picks from the listing
PropertyIds == {"properties/1", "properties/2"}

\* POST /v1/connections/google/property: the user's ga4_properties row is
\* updated or added and committed (500 when the commit fails); then, if the
\* user has no "google" metrics, the 30-day sync runs, what it raises is
\* swallowed, and the answer is {"saved": true, "backfill_started": ..}
save_google_property(email, property_id, committed, sync) ==
    /\ numSaves < MaxSaves
    /\ numSaves' = numSaves + 1
    /\ LET user_id == UserIdOf(email)
           result == SyncResult(data_sources, user_id, "google_analytics", clock,
                                oauth_configured["google_analytics"], sync)
       IN IF ~committed
          THEN UNCHANGED <<ga4_properties, data_sources, metrics, backfills>>
          ELSE /\ ga4_properties' = [ga4_properties EXCEPT ![user_id] = property_id]
               /\ IF NoMetrics(user_id, "google")
                  THEN /\ data_sources' = result.rows
                       /\ metrics' = AfterSync(metrics, user_id, "google", result)
                       /\ backfills' = Backfilled(backfills, user_id, "google", result)
                  ELSE UNCHANGED <<data_sources, metrics, backfills>>
    /\ UNCHANGED <<clockVars, oauthVars, oauth_configured, numRefreshes, lastRefresh,
                   lastAnswer, connectVars, outsideCallback>>

\* GET /v1/auth/google/callback (sign in with Google) for this user: the
\* subject id of the Google account is cached on the user
auth_google_callback(email) ==
    /\ google_sub' = [google_sub EXCEPT ![UserIdOf(email)] = "sub"]
    /\ UNCHANGED <<clockVars, oauthVars, refreshVars, cpc, clocal, numCallbacks, cbLog,
                   lastDisconnect, outsideConnect>>

\* db.delete(data_source): the row at position k leaves the table
RemoveAt_keep(rows, k) == rows
RemoveAt(rows, k) == SubSeq(rows, 1, k - 1) \o SubSeq(rows, k + 1, Len(rows))

\* the row a callback selected, after the row at position k was deleted
AfterDelete(existing, k) ==
    IF existing = k THEN StaleRow
    ELSE IF existing > k THEN existing - 1
    ELSE existing

\* removed: the position of the deleted row, 0 when nothing was deleted
NoDisconnect ==
    [called |-> FALSE, provider |-> None, user_id |-> 0, status |-> 0, removed |-> 0]

\* POST /v1/auth/google/disconnect and POST /v1/auth/instagram/disconnect for
\* a signed-in user: select the row (MultipleResultsFound, answered 500, when
\* more than one matches), delete it if there is one, for Google clear
\* users.google_sub, commit
disconnect(provider, email) ==
    LET user_id == UserIdOf(email)
        found == RowsOf(data_sources, user_id, provider)
    IN IF Cardinality(found) > 1
       THEN /\ lastDisconnect' =
                   [called |-> TRUE, provider |-> provider, user_id |-> user_id,
                    status |-> 500, removed |-> 0]
            /\ UNCHANGED <<clockVars, oauthVars, refreshVars, cpc, clocal, numCallbacks,
                           cbLog, google_sub, outsideConnect>>
       ELSE LET k == IF found = {} THEN 0 ELSE CHOOSE i \in found : TRUE
                rows == IF k = 0 THEN data_sources ELSE RemoveAt(data_sources, k)
                sub == IF provider = "google_analytics" THEN None ELSE google_sub[user_id]
            IN /\ data_sources' = rows
               /\ google_sub' = [google_sub EXCEPT ![user_id] = sub]
               /\ clocal' = [t \in Threads |->
                               IF k = 0 THEN clocal[t]
                               ELSE [clocal[t] EXCEPT
                                       !.existing = AfterDelete(clocal[t].existing, k)]]
               /\ lastDisconnect' =
                     [called |-> TRUE, provider |-> provider, user_id |-> user_id,
                      status |-> 200, removed |-> k]
               /\ UNCHANGED <<clockVars, oauthVars, oauth_configured, numRefreshes,
                              lastRefresh, lastAnswer, cpc, numCallbacks, cbLog,
                              outsideConnect>>

\* no metrics synced, no property saved
SyncIdle ==
    /\ metrics = [u \in Users |-> [src \in MetricSources |-> 0]]
    /\ ga4_properties = [u \in Users |-> None]
    /\ numSaves = 0
    /\ backfills = [u \in Users |-> [src \in MetricSources |-> 0]]

ConnectIdle ==
    /\ cpc = [t \in Threads |-> "idle"]
    /\ clocal = [t \in Threads |-> ConnectIdleLocal]
    /\ numCallbacks = 0
    /\ cbLog = << >>
    /\ google_sub = [u \in Users |-> None]
    /\ lastDisconnect = NoDisconnect

\* ---------------------------------------------------------------------------
\* In-memory rate limiter
\* ---------------------------------------------------------------------------
\* the variables the rate limiter does not touch
outsideLimiter == <<clockVars, oauthVars, digestVars, webhookVars, refreshVars, weeklyVars, connectVars, periodVars,
    mailerVars, syncVars>>

\* rate_limiter = InMemoryRateLimiter(capacity=10, refill_rate=0.5).  Token
\* counts are kept in half tokens, so that 0.5 token per second is one unit
\* per second and every count is an integer.
Capacity == 10
UnitsPerToken == 2
RefillUnitsPerSecond == 1

\* the keys rate_limiter.allow is called with: f"seed-metrics-{email}",
\* f"seed-events-{email}"
Keys == {"seed-metrics-a@x.io", "seed-events-a@x.io"}
\* time.time() is the wall clock: a reading is any second of the window
Readings == 0..MaxReading
Costs == 1..MaxCost

Min(a, b) == IF a < b THEN a ELSE b

\* defaultdict(lambda: {"tokens": capacity, "last_refill": time.time()})
NewBucket(created_at) ==
    [present |-> TRUE, tokens |-> Capacity * UnitsPerToken, last_refill |-> created_at]
NoBucket == [present |-> FALSE, tokens |-> 0, last_refill |-> 0]

\* bucket["tokens"] = min(capacity, bucket["tokens"] + elapsed * refill_rate)
Refilled_none(tokens, elapsed) == tokens
Refilled(tokens, elapsed) ==
    Min(Capacity * UnitsPerToken, tokens + elapsed * RefillUnitsPerSecond)

\* bucket["tokens"] >= tokens
Enough_any(have, cost) == have > 0
Enough(have, cost) == have >= cost * UnitsPerToken

\* the bucket and the result after allow(key, tokens=cost) at reading now,
\* on the bucket b
AllowOutcome(b, now, cost) ==
    LET elapsed == now - b.last_refill
        have == Refilled(b.tokens, elapsed)
    IN IF Enough(have, cost)
       THEN [bucket |-> [b EXCEPT !.tokens = have - cost * UnitsPerToken,
                                  !.last_refill = now],
             result |-> TRUE]
       ELSE [bucket |-> [b EXCEPT !.tokens = have, !.last_refill = now],
             result |-> FALSE]

\* history of the calls on a fresh bucket: n consecutive calls of cost 1 with
\* no elapsed time, of which 'admitted' returned True; 'after' is the result
\* of a call made at least 2 seconds after Capacity + 1 such calls
NoBurst == [live |-> TRUE, n |-> 0, admitted |-> 0, after |-> "none"]
BurstAfter(h, fresh, created_at, b, now, cost, result) ==
    LET elapsed == now - b.last_refill
    IN IF ~h.live THEN h
       ELSE IF h.n <= Capacity
       THEN IF cost = 1 /\ elapsed = 0 /\ (fresh => created_at = now)
            THEN [h EXCEPT !.n = @ + 1,
                           !.admitted = @ + (IF result THEN 1 ELSE 0)]
            ELSE [h EXCEPT !.live = FALSE]
       ELSE IF cost = 1 /\ elapsed >= 2
            THEN [h EXCEPT !.live = FALSE,
                           !.after = IF result THEN "yes" ELSE "no"]
            ELSE [h EXCEPT !.live = FALSE]

\* InMemoryRateLimiter.allow(key, tokens=cost), all of it under self.lock.
\* created_at is the reading the defaultdict factory takes when the key is
\* new (no reading is taken otherwise), now the reading allow takes.
allow(key, cost, created_at, now) ==
    /\ buckets[key].present => created_at = now
    /\ LET fresh == ~buckets[key].present
           b == IF fresh THEN NewBucket(created_at) ELSE buckets[key]
           out == AllowOutcome(b, now, cost)
       IN /\ buckets' = [buckets EXCEPT ![key] = out.bucket]
          /\ burst' = [burst EXCEPT ![key] =
                          BurstAfter(@, fresh, created_at, b, now, cost, out.result)]
    /\ UNCHANGED <<limiterThreadVars, outsideLimiter>>

\* ---- allow, statement by statement, called from concurrent requests ----
\* with self.lock: blocks until the lock is free
LimiterLockFree_always(l) == TRUE
LimiterLockFree(l) == l = 0

NoCall == [key |-> None, tokens |-> 0, overlapped |-> FALSE, seen |-> 0, result |-> None]

\* a request handler calls rate_limiter.allow(key, tokens=cost); the call
\* sites of the program pass tokens=1.  A thread that has returned serves the
\* next request.
AllowCall(t, key, cost) ==
    /\ apc[t] \in {"idle", "returned"}
    /\ numCalls < MaxCalls
    /\ apc' = [apc EXCEPT ![t] = "wait"]
    /\ alocal' = [alocal EXCEPT ![t] = [NoCall EXCEPT !.key = key, !.tokens = cost]]
    /\ numCalls' = numCalls + 1
    /\ UNCHANGED <<buckets, burst, rate_limiter_lock, credit, outsideLimiter>>

\* with self.lock.  The callers left waiting for the same key are marked.
AllowAcquire(t) ==
    /\ apc[t] = "wait"
    /\ LimiterLockFree(rate_limiter_lock)
    /\ rate_limiter_lock' = t
    /\ apc' = [apc EXCEPT ![t] = "locked"]
    /\ alocal' = [u \in Threads |->
                    IF u # t /\ apc[u] = "wait" /\ alocal[u].key = alocal[t].key
                    THEN [alocal[u] EXCEPT !.overlapped = TRUE]
                    ELSE alocal[u]]
    /\ UNCHANGED <<buckets, burst, numCalls, credit, outsideLimiter>>

\* bucket = self.buckets[key]; now = time.time(); elapsed = ...;
\* bucket["tokens"] = min(capacity, ...); bucket["last_refill"] = now
AllowRefill(t) ==
    /\ apc[t] = "locked"
    /\ LET key == alocal[t].key
           now == clock
           fresh == ~buckets[key].present
           b == IF fresh THEN NewBucket(now) ELSE buckets[key]
           elapsed == now - b.last_refill
       IN /\ buckets' = [buckets EXCEPT ![key] =
                            [b EXCEPT !.tokens = Refilled(b.tokens, elapsed),
                                      !.last_refill = now]]
          /\ credit' = [credit EXCEPT ![key] =
                          @ + (IF fresh THEN Capacity * UnitsPerToken ELSE 0)
                            + elapsed * RefillUnitsPerSecond]
    /\ apc' = [apc EXCEPT ![t] = "refilled"]
    /\ UNCHANGED <<clockVars, oauthVars, digestVars, webhookVars, refreshVars,
                   weeklyVars, connectVars, periodVars, mailerVars, syncVars, burst, rate_limiter_lock, alocal,
                   numCalls>>

\* if bucket["tokens"] >= tokens: ... else: return False (the lock is released)
AllowCheck(t) ==
    /\ apc[t] = "refilled"
    /\ LET have == buckets[alocal[t].key].tokens
       IN IF Enough(have, alocal[t].tokens)
          THEN /\ apc' = [apc EXCEPT ![t] = "admit"]
               /\ alocal' = [alocal EXCEPT ![t].seen = have]
               /\ rate_limiter_lock' = rate_limiter_lock
          ELSE /\ apc' = [apc EXCEPT ![t] = "returned"]
               /\ alocal' = [alocal EXCEPT ![t].seen = have, ![t].result = "False"]
               /\ rate_limiter_lock' = 0
    /\ UNCHANGED <<buckets, burst, numCalls, credit, outsideLimiter>>

\* bucket["tokens"] -= tokens; return True (the lock is released)
AllowTake(t) ==
    /\ apc[t] = "admit"
    /\ LET key == alocal[t].key
           units == alocal[t].tokens * UnitsPerToken
       IN /\ buckets' = [buckets EXCEPT ![key].tokens = @ - units]
          /\ credit' = [credit EXCEPT ![key] = @ - units]
    /\ apc' = [apc EXCEPT ![t] = "returned"]
    /\ alocal' = [alocal EXCEPT ![t].result = "True"]
    /\ rate_limiter_lock' = 0
    /\ UNCHANGED <<burst, numCalls, outsideLimiter>>

LimiterThreadsIdle ==
    /\ rate_limiter_lock = 0
    /\ apc = [t \in Threads |-> "idle"]
    /\ alocal = [t \in Threads |-> NoCall]
    /\ numCalls = 0

LimiterIdle ==
    /\ buckets = [k \in Keys |-> NoBucket]
    /\ burst = [k \in Keys |-> NoBurst]
    /\ LimiterThreadsIdle
    /\ credit = [k \in Keys |-> 0]

\* ---------------------------------------------------------------------------
\* Seeding email events (POST /v1/dev/seed-email-events)
\* ---------------------------------------------------------------------------
\* the variables the seeding endpoint does not touch
outsideSeed == <<clockVars, oauthVars, digestVars, refreshVars, limiterThreadVars, weeklyVars,
    connectVars, periodVars, mailerVars, syncVars>>

\* ADMIN_TOKEN, and the bearer tokens a request may carry
ADMIN_TOKEN == "admin_token"
BearerTokens == {ADMIN_TOKEN, "other_token"}

\* body.events: Field(ge=1, le=500)
SeedCounts == {1, 2}

\* selected_type: rand <= 0.95 selects "email.delivered"; any other rand is
\* below the cumulative 0.95 + 0.40 and selects "email.opened"
SeedEventTypes == {"email.delivered", "email.opened"}

\* provider_id = f"seed-{uuid.uuid4()}": the k-th uuid drawn (never repeats)
SeedIds == <<"seed-1", "seed-2", "seed-3", "seed-4", "seed-5", "seed-6", "seed-7", "seed-8">>
Seeded(table) == {i \in 1..Len(table) : \E k \in 1..Len(SeedIds) : table[i].provider_id = SeedIds[k]}

\* the rows one request adds: events rows for body.email, each with a fresh
\* provider_id, an empty payload and a type drawn at random
SeedRows(table, email, types) ==
    [k \in 1..Len(types) |->
        [email |-> email, event_type |-> types[k],
         provider_id |-> SeedIds[Cardinality(Seeded(table)) + k],
         subject |-> "Weekly Living Lytics Digest", payload |-> 0]]

\* POST /v1/dev/seed-email-events: 403 unless the bearer token is ADMIN_TOKEN;
\* 429 when rate_limiter.allow(f"seed-events-{email}") denies; the date
\* range is parsed and drawn from (ValueError when it is malformed or
\* empty); the rows are added and committed (500 when the commit fails)
seed_email_events(token, email, types, dates_ok, committed, created_at, now) ==
    /\ numSeeds < MaxSeeds
    /\ numSeeds' = numSeeds + 1
    /\ LET key == "seed-events-a@x.io"
           fresh == ~buckets[key].present
           b == IF fresh THEN NewBucket(created_at) ELSE buckets[key]
           out == AllowOutcome(b, now, 1)
       IN /\ buckets[key].present => created_at = now
          /\ IF token # ADMIN_TOKEN
             THEN UNCHANGED <<buckets, burst, email_events>>
             ELSE /\ buckets' = [buckets EXCEPT ![key] = out.bucket]
                  /\ burst' = [burst EXCEPT ![key] =
                                  BurstAfter(@, fresh, created_at, b, now, 1, out.result)]
                  /\ email_events' =
                        IF out.result /\ dates_ok /\ committed
                        THEN email_events \o SeedRows(email_events, email, types)
                        ELSE email_events
    /\ UNCHANGED <<webhook_secret, numDeliveries, whLog, outsideSeed>>

\* ---------------------------------------------------------------------------
\* Batch digest endpoint (POST /v1/digest/weekly)
\* ---------------------------------------------------------------------------
\* the variables weekly_digest does not touch
outsideWeekly == <<clockVars, oauthVars, digestVars, webhookVars, refreshVars, limiterVars, connectVars, periodVars,
    mailerVars, syncVars>>

\* INTERVAL '10 minutes'
CooldownSeconds == 600
\* SET finished_at = NOW(), errors = -1
AbortErrors == 0 - 1

\* DigestRequest: scope 'all', scope 'email' with or without an address, and
\* a scope that is neither
Payloads ==
    {[scope |-> "all", email |-> None], [scope |-> "email", email |-> "a@x.io"],
     [scope |-> "email", email |-> None], [scope |-> "user", email |-> None]}

\* WHERE started_at >= NOW() - INTERVAL '10 minutes', over the rows the
\* transaction of the request can see: the committed ones
RecentRun_none(runs, now) == FALSE
RecentRun(runs, now) ==
    \E i \in 1..Len(runs) :
        runs[i].committed /\ runs[i].started_at >= now - CooldownSeconds

\* INSERT INTO digest_runs(started_at, sent, errors) VALUES (NOW(), 0, 0)
DigestRunRow(id, now) ==
    [id |-> id, started_at |-> now, finished_at |-> NullTime, sent |-> 0, errors |-> 0,
     committed |-> FALSE]

\* recipients: [payload.email], every user's email, or HTTP 400
RecipientCount(payload) ==
    IF payload.scope = "email" THEN (IF payload.email = None THEN 0 - 1 ELSE 1)
    ELSE IF payload.scope = "all" THEN MaxUsers
    ELSE 0 - 1

WeeklyIdleLocal ==
    [payload |-> [scope |-> None, email |-> None], now |-> 0, cooling |-> FALSE,
     run_id |-> 0, left |-> 0, sent |-> 0, errors |-> 0]

\* the answer to a request: whether a row that started less than 10 minutes
\* before was in the table (committed or not) when its first statement ran,
\* the HTTP status, the id of the row it created (0: none) and the number of
\* emails it sent
Answer(l, status) ==
    [cooling |-> l.cooling, status |-> status, run_id |-> l.run_id, sent |-> l.sent]

\* weekly_digest: the cooldown check.  NOW() is the time the transaction of
\* the request began, which is this statement.
WeeklyGate(t, payload) ==
    /\ wpc[t] = "idle"
    /\ numWeekly < MaxWeekly
    /\ numWeekly' = numWeekly + 1
    /\ LET now == clock
           l == [WeeklyIdleLocal EXCEPT
                   !.payload = payload, !.now = now,
                   !.cooling = \E i \in 1..Len(digest_runs) :
                                  now - digest_runs[i].started_at < CooldownSeconds]
       IN IF RecentRun(digest_runs, now)
          THEN /\ weeklyLog' = Append(weeklyLog, Answer(l, 429))
               /\ UNCHANGED <<wpc, wlocal>>
          ELSE /\ wpc' = [wpc EXCEPT ![t] = "insert"]
               /\ wlocal' = [wlocal EXCEPT ![t] = l]
               /\ UNCHANGED weeklyLog
    /\ UNCHANGED <<digest_runs, outsideWeekly>>

\* INSERT INTO digest_runs ... RETURNING id
WeeklyInsert(t) ==
    /\ wpc[t] = "insert"
    /\ LET id == Len(digest_runs) + 1
       IN /\ digest_runs' = Append(digest_runs, DigestRunRow(id, wlocal[t].now))
          /\ wlocal' = [wlocal EXCEPT ![t].run_id = id]
    /\ wpc' = [wpc EXCEPT ![t] = "commit"]
    /\ UNCHANGED <<numWeekly, weeklyLog, outsideWeekly>>

\* db.commit()
WeeklyCommit(t) ==
    /\ wpc[t] = "commit"
    /\ digest_runs' = [digest_runs EXCEPT ![wlocal[t].run_id].committed = TRUE]
    /\ wpc' = [wpc EXCEPT ![t] = "recipients"]
    /\ UNCHANGED <<wlocal, numWeekly, weeklyLog, outsideWeekly>>

\* the recipients are determined; a bad payload raises HTTP 400, which marks
\* the run as failed (finished_at = NOW(), errors = -1) and is re-raised
WeeklyRecipients(t) ==
    /\ wpc[t] = "recipients"
    /\ LET n == RecipientCount(wlocal[t].payload)
           now == clock
       IN IF n < 0
          THEN /\ digest_runs' = [digest_runs EXCEPT
                                    ![wlocal[t].run_id].finished_at = now,
                                    ![wlocal[t].run_id].errors = AbortErrors]
               /\ weeklyLog' = Append(weeklyLog, Answer(wlocal[t], 400))
               /\ wpc' = [wpc EXCEPT ![t] = "idle"]
               /\ wlocal' = [wlocal EXCEPT ![t] = WeeklyIdleLocal]
          ELSE /\ wlocal' = [wlocal EXCEPT ![t].left = n]
               /\ wpc' = [wpc EXCEPT ![t] = "send"]
               /\ UNCHANGED <<digest_runs, weeklyLog>>
    /\ UNCHANGED <<numWeekly, outsideWeekly>>

\* the user the next email of the request goes to: payload.email, or the
\* next of the users in select(User.email)
Recipient(l) ==
    IF l.payload.scope = "email" THEN UserIdOf(l.payload.email)
    ELSE MaxUsers - l.left + 1

\* one recipient: KPIs, HTML, send_email_resend; an exception is caught and
\* appended to errors
WeeklySend(t, ok) ==
    /\ wpc[t] = "send"
    /\ wlocal[t].left > 0
    /\ wlocal' = [wlocal EXCEPT ![t].left = @ - 1,
                                ![t].sent = @ + (IF ok THEN 1 ELSE 0),
                                ![t].errors = @ + (IF ok THEN 0 ELSE 1)]
    /\ delivered' = IF ok THEN [delivered EXCEPT ![Recipient(wlocal[t])] = @ + 1]
                    ELSE delivered
    /\ UNCHANGED <<digest_runs, wpc, numWeekly, weeklyLog, clockVars, oauthVars,
                   today, dayAdvances, optUpdates, opt_in_digest, last_digest_sent_at,
                   digest_log, dpc, dlocal, numRuns, callLog, runLog,
                   webhookVars, refreshVars, limiterVars, connectVars, periodVars,
                   mailerVars, syncVars>>

\* UPDATE digest_runs SET finished_at = NOW(), sent, errors; commit; return
WeeklyFinish(t) ==
    /\ wpc[t] = "send"
    /\ wlocal[t].left = 0
    /\ digest_runs' = [digest_runs EXCEPT
                         ![wlocal[t].run_id].finished_at = clock,
                         ![wlocal[t].run_id].sent = wlocal[t].sent,
                         ![wlocal[t].run_id].errors = wlocal[t].errors]
    /\ weeklyLog' = Append(weeklyLog, Answer(wlocal[t], 200))
    /\ wpc' = [wpc EXCEPT ![t] = "idle"]
    /\ wlocal' = [wlocal EXCEPT ![t] = WeeklyIdleLocal]
    /\ UNCHANGED <<numWeekly, outsideWeekly>>

WeeklyIdle ==
    /\ digest_runs = << >>
    /\ wpc = [t \in Threads |-> "idle"]
    /\ wlocal = [t \in Threads |-> WeeklyIdleLocal]
    /\ numWeekly = 0
    /\ weeklyLog = << >>

\* ---------------------------------------------------------------------------
\* Specifications
\* ---------------------------------------------------------------------------
ClockIdle ==
    /\ clock = 0
    /\ ticks = 0

OAuthIdle ==
    /\ oauth_state_store = << >>
    /\ oauth_state_lock = 0
    /\ opc = [t \in Threads |-> "idle"]
    /\ olocal = [t \in Threads |-> IdleLocal]
    /\ nextToken = 1
    /\ issued = << >>
    /\ verifyLog = [k \in 1..(MaxTokens + 1) |-> << >>]
    /\ numVerifies = 0

InitOAuth ==
    ClockIdle /\ PeriodIdle /\ SyncIdle /\ MailerIdle /\ OAuthIdle /\ WeeklyIdle /\ ConnectIdle /\ DigestIdle /\ WebhookIdle /\ RefreshIdle /\ LimiterIdle

vars == <<clockVars, oauthVars, digestVars, webhookVars, refreshVars, limiterVars,
          weeklyVars, connectVars, periodVars, mailerVars, syncVars>>

NextOAuth ==
    \/ \E t \in Threads, e \in Emails : GenAcquire(t, e)
    \/ \E t \in Threads : GenStore(t)
    \/ \E t \in Threads, tok \in 1..(MaxTokens + 1) : VerifyStart(t, tok)
    \/ \E t \in Threads : VerifyGet(t)
    \/ \E t \in Threads : VerifyFinish(t)
    \/ \E d \in ClockSteps : Tick(d)

SpecOAuth == InitOAuth /\ [][NextOAuth]_vars

\* the period is computed at any hour of a run of two weeks
InitPeriod ==
    ClockIdle /\ PeriodIdle /\ SyncIdle /\ MailerIdle /\ OAuthIdle /\ WeeklyIdle /\ ConnectIdle /\ DigestIdle /\ WebhookIdle /\ RefreshIdle /\ LimiterIdle

NextPeriod ==
    \/ \E tz \in Timezones : CallLastCompletedWeek(tz)
    \/ \E h \in {1, 24} : Elapse(h)

SpecPeriod == InitPeriod /\ [][NextPeriod]_vars

InitDigest ==
    ClockIdle /\ PeriodIdle /\ SyncIdle /\ MailerIdle /\ OAuthIdle /\ WeeklyIdle /\ ConnectIdle /\ DigestIdle /\ WebhookIdle /\ RefreshIdle /\ LimiterIdle

\* the invocations t may run, interleaved with preference updates and midnight
DigestSteps(t) ==
    \/ RunStart(t)
    \/ RunNext(t)
    \/ RunFinish(t)
    \/ SendLookup(t)
    \/ SendCheck(t)
    \/ \E ok \in BOOLEAN : SendEmail(t, ok)
    \/ SendLogSent(t)
    \/ SendLogError(t)

\* one invocation at a time: every call follows the return of the previous one
NextDigestSeq ==
    \/ DigestSteps(1)
    \/ \E u \in Users, b \in BOOLEAN : SetOptIn(u, b)
    \/ NextDay

SpecDigestSeq == InitDigest /\ [][NextDigestSeq]_vars

\* the batches of one week, one at a time, with preference updates in between
NextDigestBatch ==
    \/ DigestSteps(1)
    \/ \E u \in Users, b \in BOOLEAN : SetOptIn(u, b)

SpecDigestBatch == InitDigest /\ [][NextDigestBatch]_vars

\* concurrent invocations: the scheduled job and the manual trigger overlap
NextDigest ==
    \/ \E t \in DThreads : DigestSteps(t)
    \/ \E u \in Users, b \in BOOLEAN : SetOptIn(u, b)
    \/ NextDay

SpecDigest == InitDigest /\ [][NextDigest]_vars

\* the secret is read from the environment of the process: any of its values
InitWebhook ==
    /\ ClockIdle /\ PeriodIdle /\ SyncIdle /\ MailerIdle /\ OAuthIdle /\ WeeklyIdle /\ ConnectIdle /\ DigestIdle /\ RefreshIdle /\ LimiterIdle
    /\ webhook_secret \in Secrets
    /\ email_events = << >>
    /\ numDeliveries = 0
    /\ numSeeds = 0
    /\ whLog = << >>

NextWebhook ==
    \E i \in 1..Len(Bodies) : \E sig \in SignaturesFor(Bodies[i]) :
        resend_webhook(Bodies[i], sig, TRUE)

SpecWebhook == InitWebhook /\ [][NextWebhook]_vars

\* the database may be unreachable, or reject the INSERT or the commit; the
\* requests are Resend's own (correctly signed) or carry no signature
ResendSignaturesFor(b) == {NoSignature, HmacHex("whsec_live", b.raw)}

NextWebhookDb ==
    \E i \in 1..Len(Bodies) : \E sig \in ResendSignaturesFor(Bodies[i]) :
        \E db_ok \in BOOLEAN : resend_webhook(Bodies[i], sig, db_ok)

SpecWebhookDb == InitWebhook /\ [][NextWebhookDb]_vars

\* Resend delivers signed events (one with an id, one without) while an administrator seeds events for a user
InitSeed ==
    ClockIdle /\ PeriodIdle /\ SyncIdle /\ MailerIdle /\ OAuthIdle /\ WeeklyIdle /\ ConnectIdle /\ DigestIdle /\ WebhookIdle /\ RefreshIdle /\ LimiterIdle

NextSeed ==
    \/ \E i \in {1, 5} :
          resend_webhook(Bodies[i], HmacHex("whsec_live", Bodies[i].raw), TRUE)
    \/ \E token \in BearerTokens, n \in SeedCounts, types \in [1..2 -> SeedEventTypes],
          dates_ok \in BOOLEAN, committed \in BOOLEAN, now \in Readings :
          seed_email_events(token, "a@x.io", SubSeq(types, 1, n), dates_ok, committed,
                            now, now)

SpecSeed == InitSeed /\ [][NextSeed]_vars

\* the rows of a table are the first rows of a later table, unchanged
KeptRows(before, after) ==
    Len(before) <= Len(after) /\ SubSeq(after, 1, Len(before)) = before

\* C37: email_events rows are created only by the webhook ingest path, and
\* no operation updates or deletes an existing row: every step keeps the
\* rows there are, and a step that adds rows is a webhook request that wrote
C37_CreatedOnlyByWebhook ==
    [][/\ KeptRows(email_events, email_events')
       /\ (email_events' # email_events =>
              /\ Len(whLog') = Len(whLog) + 1
              /\ whLog'[Len(whLog')].wrote)]_vars

\* a user has connected both providers: the Google credential with or without
\* a refresh token (the callback stores what the provider returned), the
\* Instagram credential with the account id in refresh_token
InitRefresh ==
    /\ ClockIdle /\ PeriodIdle /\ SyncIdle /\ MailerIdle /\ OAuthIdle /\ WeeklyIdle /\ ConnectIdle /\ DigestIdle /\ WebhookIdle /\ LimiterIdle
    /\ oauth_configured \in [Providers -> BOOLEAN]
    /\ \E grt \in {None, "rt_0"}, gexp \in StoredExpiries, iexp \in StoredExpiries :
          data_sources =
            << DataSource(1, "google_analytics", "a@x.io", "at_0", grt, gexp, 0),
               DataSource(1, "instagram", "ig_user", "at_0", "ig_17", iexp, 0) >>
    /\ numRefreshes = 0
    /\ lastRefresh = [p \in Providers |-> NoRefresh]
    /\ lastAnswer = [p \in Providers |-> NoAnswer]

NextRefresh ==
    \/ \E i \in RowIds, ans \in UpstreamAnswers : refresh_google_token(i, ans)
    \/ \E i \in RowIds, ans \in UpstreamAnswers : refresh_instagram_token(i, ans)
    \/ \E d \in RefreshClockSteps : Tick(d)

SpecRefresh == InitRefresh /\ [][NextRefresh]_vars

\* no provider is connected yet; users connect, reconnect, disconnect and
\* sync (the lifetime of a state is the subject of SpecOAuth); the
\* reporting APIs are unreachable, so that a backfill inserts nothing (the
\* backfill is the subject of SpecBackfill)
InitConnect ==
    /\ ClockIdle /\ PeriodIdle /\ SyncIdle /\ MailerIdle /\ OAuthIdle /\ WeeklyIdle /\ ConnectIdle /\ DigestIdle
    /\ WebhookIdle /\ RefreshIdle /\ LimiterIdle

NextConnect ==
    \/ \E p \in Providers, e \in Emails : oauth_init(p, e)
    \/ \E t \in Threads, p \in Providers, state \in 1..(MaxTokens + 1) :
          CallbackVerify(t, p, state)
    \/ \E t \in Threads, ans \in CallbackAnswers : CallbackExchange(t, ans)
    \/ \E t \in Threads : CallbackSelect(t)
    \/ \E t \in Threads, committed \in BOOLEAN : CallbackSave(t, committed, SyncDown)
    \/ \E i \in RowIds, ans \in UpstreamAnswers : refresh_google_token(i, ans)
    \/ \E i \in RowIds, ans \in UpstreamAnswers : refresh_instagram_token(i, ans)
    \/ \E p \in Providers, e \in Emails : disconnect(p, e)

SpecConnect == InitConnect /\ [][NextConnect]_vars

\* the answers that differ in how the callback ends: the exchange fails, the
\* body has no access_token, or the tokens arrive and discovery finds one of
\* its four results
EndingAnswers ==
    {ans \in CallbackAnswers :
        \/ ~ans.ok
        \/ ans.access_token = None /\ ans.refresh_token = None
              /\ ans.expires_in = NoExpiresIn /\ ans.pages = "failed"
        \/ ans.access_token # None /\ ans.refresh_token # None
              /\ ans.expires_in # NoExpiresIn}

\* the connect flow alone: inits and two request threads handling callbacks
\* concurrently
NextCallbacks ==
    \/ \E p \in Providers, e \in Emails : oauth_init(p, e)
    \/ \E t \in 1..2, p \in Providers, state \in 1..(MaxTokens + 1) :
          CallbackVerify(t, p, state)
    \/ \E t \in 1..2, ans \in EndingAnswers : CallbackExchange(t, ans)
    \/ \E t \in 1..2 : CallbackSelect(t)
    \/ \E t \in 1..2, committed \in BOOLEAN : CallbackSave(t, committed, SyncDown)

SpecCallbacks == InitConnect /\ [][NextCallbacks]_vars

\* connecting and disconnecting: sign-in with Google by either user, one user
\* connecting accounts (callbacks handled by one request thread) and
\* disconnecting them between the steps of a callback
NextDisconnect ==
    \/ \E e \in Emails : auth_google_callback(e)
    \/ \E p \in Providers : oauth_init(p, "a@x.io")
    \/ \E p \in Providers, state \in 1..MaxTokens : CallbackVerify(1, p, state)
    \/ \E ans \in EndingAnswers : CallbackExchange(1, ans)
    \/ CallbackSelect(1)
    \/ \E committed \in BOOLEAN : CallbackSave(1, committed, SyncDown)
    \/ \E p \in Providers : disconnect(p, "a@x.io")

SpecDisconnect == InitConnect /\ [][NextDisconnect]_vars

\* callbacks that arrive early, late or with a state nobody issued: the clock
\* runs past the lifetime of a state, and the provider rejects every code
RejectedCodes == {ans \in CallbackAnswers : ~ans.ok}

NextStateCheck ==
    \/ \E p \in Providers, e \in Emails : oauth_init(p, e)
    \/ \E d \in ClockSteps : Tick(d)
    \/ \E p \in Providers, state \in 1..(MaxTokens + 1) : CallbackVerify(1, p, state)
    \/ \E ans \in RejectedCodes : CallbackExchange(1, ans)

SpecStateCheck == InitConnect /\ [][NextStateCheck]_vars

\* users start the Google connection only; callbacks of both providers arrive
\* with the states issued
NextCrossProvider ==
    \/ \E e \in Emails : oauth_init("google_analytics", e)
    \/ \E p \in Providers, state \in 1..(MaxTokens + 1) : CallbackVerify(1, p, state)
    \/ \E ans \in EndingAnswers : CallbackExchange(1, ans)
    \/ CallbackSelect(1)
    \/ \E committed \in BOOLEAN : CallbackSave(1, committed, SyncDown)

SpecCrossProvider == InitConnect /\ [][NextCrossProvider]_vars

\* one user connects and reconnects Instagram and Google Analytics (callbacks
\* handled by one request thread) and saves a GA4 property, while the syncs
\* meet every answer of the providers
NextBackfill ==
    \/ \E p \in Providers : oauth_init(p, "a@x.io")
    \/ \E p \in Providers, state \in 1..MaxTokens : CallbackVerify(1, p, state)
    \/ \E ans \in EndingAnswers : CallbackExchange(1, ans)
    \/ CallbackSelect(1)
    \/ \E committed \in BOOLEAN, sync \in SyncInputs : CallbackSave(1, committed, sync)
    \/ \E property_id \in PropertyIds, committed \in BOOLEAN, sync \in SyncInputs :
          save_google_property("a@x.io", property_id, committed, sync)

SpecBackfill == InitConnect /\ [][NextBackfill]_vars

\* C36: the initial 30-day backfill is performed at most once per user and
\* provider: after a 30-day sync of a user's source has returned, no later
\* callback or property save of that user runs another one
C36_BackfillAtMostOnce ==
    \A u \in Users, src \in MetricSources : backfills[u][src] <= 1

\* the mailer is called with RESEND_API_KEY unset, empty or set
InitMailer ==
    /\ ClockIdle /\ PeriodIdle /\ SyncIdle /\ OAuthIdle /\ WeeklyIdle /\ ConnectIdle /\ DigestIdle
    /\ WebhookIdle /\ RefreshIdle /\ LimiterIdle
    /\ api_key \in {None, "", "re_key"}
    /\ mpc = "idle"
    /\ attempt = 0
    /\ posts = << >>
    /\ slept = 0
    /\ mresult = NoResult
    /\ numSends = 0

NextMailer ==
    \/ send_email_resend
    \/ \E o \in PostOutcomes : MailerPost(o)
    \/ MailerSleep

\* a call that has started goes on: client.post returns or raises within
\* its timeout of 15 seconds, and time.sleep returns
SpecMailer ==
    /\ InitMailer /\ [][NextMailer]_vars
    /\ WF_vars(\E o \in PostOutcomes : MailerPost(o))
    /\ WF_vars(MailerSleep)

InitLimiter ==
    ClockIdle /\ PeriodIdle /\ SyncIdle /\ MailerIdle /\ OAuthIdle /\ WeeklyIdle /\ ConnectIdle /\ DigestIdle /\ WebhookIdle /\ RefreshIdle /\ LimiterIdle

NextLimiter ==
    \E key \in Keys, cost \in Costs, created_at \in Readings, now \in Readings :
        allow(key, cost, created_at, now)

SpecLimiter == InitLimiter /\ [][NextLimiter]_vars

\* the buckets earlier requests left behind: none, or one that was drained to
\* a token or a token and a half at the current reading
LeftBuckets ==
    {NoBucket} \cup
    {[present |-> TRUE, tokens |-> u, last_refill |-> 0] :
        u \in UnitsPerToken..(UnitsPerToken + 1)}

\* between two statements of allow the clock advances by one or two seconds
LimiterClockSteps == {1, 2}

InitLimiterThreads ==
    /\ ClockIdle /\ PeriodIdle /\ SyncIdle /\ MailerIdle /\ OAuthIdle /\ WeeklyIdle /\ ConnectIdle /\ DigestIdle /\ WebhookIdle /\ RefreshIdle
    /\ buckets \in [Keys -> LeftBuckets]
    /\ burst = [k \in Keys |-> NoBurst]
    /\ LimiterThreadsIdle
    /\ credit = [k \in Keys |-> buckets[k].tokens]

NextLimiterThreads ==
    \/ \E t \in Threads, key \in Keys : AllowCall(t, key, 1)
    \/ \E t \in Threads : AllowAcquire(t)
    \/ \E t \in Threads : AllowRefill(t)
    \/ \E t \in Threads : AllowCheck(t)
    \/ \E t \in Threads : AllowTake(t)
    \/ \E d \in LimiterClockSteps : Tick(d)

SpecLimiterThreads == InitLimiterThreads /\ [][NextLimiterThreads]_vars

\* allow called with the smallest or the largest cost, from concurrent
\* requests for the events of a user; the other bucket is as earlier
\* requests left it
NextAllow ==
    \/ \E t \in Threads, cost \in {1, MaxCost} : AllowCall(t, "seed-events-a@x.io", cost)
    \/ \E t \in Threads : AllowAcquire(t)
    \/ \E t \in Threads : AllowRefill(t)
    \/ \E t \in Threads : AllowCheck(t)
    \/ \E t \in Threads : AllowTake(t)
    \/ \E d \in LimiterClockSteps : Tick(d)

SpecAllow == InitLimiterThreads /\ [][NextAllow]_vars

InitWeekly ==
    /\ ClockIdle /\ PeriodIdle /\ SyncIdle /\ MailerIdle /\ OAuthIdle /\ WeeklyIdle /\ ConnectIdle /\ DigestIdle /\ WebhookIdle
    /\ RefreshIdle /\ LimiterIdle

\* one request at a time: every request follows the answer to the previous one
WeeklySteps(t) ==
    \/ \E payload \in Payloads : WeeklyGate(t, payload)
    \/ WeeklyInsert(t)
    \/ WeeklyCommit(t)
    \/ WeeklyRecipients(t)
    \/ \E ok \in BOOLEAN : WeeklySend(t, ok)
    \/ WeeklyFinish(t)

NextWeeklySeq ==
    \/ WeeklySteps(1)
    \/ \E d \in ClockSteps : Tick(d)

SpecWeeklySeq == InitWeekly /\ [][NextWeeklySeq]_vars

\* both batch paths, one invocation at a time: the scheduled job (or POST
\* /v1/digest/scheduled-run-all) running run_weekly_digests, and POST
\* /v1/digest/weekly
NextBatchRuns ==
    \/ DigestSteps(1)
    \/ WeeklySteps(1)
    \/ \E d \in ClockSteps : Tick(d)

SpecBatchRuns == InitWeekly /\ [][NextBatchRuns]_vars

\* users change their preference (or follow the unsubscribe link) while the
\* scheduled batch and POST /v1/digest/weekly requests run, one at a time
NextOptOut ==
    \/ DigestSteps(1)
    \/ WeeklySteps(1)
    \/ \E u \in Users, b \in BOOLEAN : SetOptIn(u, b)

SpecOptOut == InitWeekly /\ [][NextOptOut]_vars

\* the endpoint runs in the server's thread pool: requests overlap
NextWeekly ==
    \/ \E t \in Threads : WeeklySteps(t)
    \/ \E d \in ClockSteps : Tick(d)

SpecWeekly == InitWeekly /\ [][NextWeekly]_vars

\* ---------------------------------------------------------------------------
\* Properties of the OAuth CSRF state cache
\* ---------------------------------------------------------------------------
\* the verification was made before the state expired (expires_at >= now)
BeforeExpiry(tok, e) == e.at <= issued[tok].at + StateTTL

\* C1: for every issued state token, among the verify_oauth_state calls made
\* before it expires exactly the first returns the associated email, every
\* later call returns None, and once a verify_oauth_state(t) call has returned
\* t is no longer in oauth_state_store.
C1_SingleUse ==
    \A tok \in DOMAIN issued :
        /\ \A i \in 1..Len(verifyLog[tok]) :
              LET e == verifyLog[tok][i]
              IN /\ (i = 1 /\ BeforeExpiry(tok, e)) => e.ret = issued[tok].email
                 /\ i > 1 => e.ret = None
        /\ Len(verifyLog[tok]) > 0 => tok \notin DOMAIN oauth_state_store

C1_Witness ==
    \E tok \in DOMAIN issued :
        /\ Len(verifyLog[tok]) >= 2
        /\ BeforeExpiry(tok, verifyLog[tok][2])
        /\ verifyLog[tok][1].ret = issued[tok].email
        /\ verifyLog[tok][2].ret = None

\* C2: a verify_oauth_state call made more than 600 s after the token was
\* issued returns None, also when it is the first attempt for the token and
\* whether or not an intervening generate_oauth_state evicted the entry.
C2_ExpiredIsAbsent ==
    \A tok \in DOMAIN issued :
        \A i \in 1..Len(verifyLog[tok]) :
            verifyLog[tok][i].at > issued[tok].at + StateTTL
                => verifyLog[tok][i].ret = None

C2_Witness ==
    \E tok \in DOMAIN issued :
        /\ Len(verifyLog[tok]) >= 1
        /\ verifyLog[tok][1].at > issued[tok].at + StateTTL
        /\ verifyLog[tok][1].present
        /\ verifyLog[tok][1].ret = None

\* C3: under any interleaving of concurrent verify_oauth_state and
\* generate_oauth_state calls the email of a token is returned to at most one
\* caller (exactly one when a call comes before expiry), and the read and the
\* delete of the entry form one critical section under oauth_state_lock: at
\* most one thread is inside it, and the entry a thread has read is still the
\* stored one when it deletes it.
InCritical(t) == opc[t] \in {"gen_locked", "ver_got"}

C3_AtomicConsume ==
    /\ \A tok \in DOMAIN issued :
          /\ Cardinality({i \in 1..Len(verifyLog[tok]) : verifyLog[tok][i].ret # None}) <= 1
          /\ (\E i \in 1..Len(verifyLog[tok]) : BeforeExpiry(tok, verifyLog[tok][i]))
                => \E i \in 1..Len(verifyLog[tok]) : verifyLog[tok][i].ret = issued[tok].email
    /\ \A t, u \in Threads : (InCritical(t) /\ InCritical(u)) => t = u
    /\ \A t \in Threads : InCritical(t) => oauth_state_lock = t
    /\ \A t \in Threads :
          opc[t] = "ver_got" =>
              olocal[t].state_data = GetState(oauth_state_store, olocal[t].state_token)

C3_Witness ==
    \E tok \in DOMAIN issued :
        /\ Len(verifyLog[tok]) = 2
        /\ verifyLog[tok][1].overlapped
        /\ verifyLog[tok][1].ret = issued[tok].email
        /\ BeforeExpiry(tok, verifyLog[tok][2])
        /\ verifyLog[tok][2].ret = None

\* ---------------------------------------------------------------------------
\* Properties of the weekly digest ledger
\* ---------------------------------------------------------------------------
\* number of digest_log rows with status 'sent' for (user, period)
SentCount(u, p) ==
    Cardinality({i \in 1..Len(digest_log) :
                    /\ digest_log[i].user_id = u
                    /\ digest_log[i].period_start = p[1]
                    /\ digest_log[i].period_end = p[2]
                    /\ digest_log[i].status = "sent"})

\* the periods the ledger or the history mention
SeenPeriods ==
    {<<digest_log[i].period_start, digest_log[i].period_end>> : i \in 1..Len(digest_log)}
        \cup {callLog[i].period : i \in 1..Len(callLog)}

\* C4: when send_weekly_digest is called again for a user in a period after a
\* call whose delivery succeeded, the later call returns 'skipped' and exactly
\* one 'sent' row exists for that (user, period).
C4_SecondCallSkipped ==
    \A i \in 1..Len(callLog) :
        callLog[i].status = "sent" =>
            /\ SentCount(callLog[i].user_id, callLog[i].period) = 1
            /\ \A j \in (i + 1)..Len(callLog) :
                  (/\ callLog[j].user_id = callLog[i].user_id
                   /\ callLog[j].period = callLog[i].period)
                      => callLog[j].status = "skipped"

C4_Witness ==
    \E i \in 1..Len(callLog) : \E j \in (i + 1)..Len(callLog) :
        /\ callLog[i].status = "sent"
        /\ callLog[j].user_id = callLog[i].user_id
        /\ callLog[j].period = callLog[i].period
        /\ callLog[j].status = "skipped"
        /\ callLog[j].message = "Already sent for this period"
        /\ SentCount(callLog[i].user_id, callLog[i].period) = 1

\* C5: under any interleaving of concurrent send_weekly_digest invocations, at
\* most one digest_log row with status 'sent' exists for a given
\* (user_id, period_start, period_end) in every reachable state.
C5_AtMostOneSent ==
    \A u \in Users : \A p \in SeenPeriods : SentCount(u, p) <= 1

\* ---------------------------------------------------------------------------
\* Properties of the webhook ingest
\* ---------------------------------------------------------------------------
\* number of email_events rows with the provider id pid
EventRows(pid) ==
    Cardinality({i \in 1..Len(email_events) : email_events[i].provider_id = pid})

C7_BadSignatureRejected ==
    \A i \in 1..Len(whLog) :
        ~whLog[i].authentic =>
            /\ whLog[i].status \in {400, 403, 500}
            /\ ~whLog[i].wrote

C7_Witness ==
    /\ webhook_secret = "whsec_live"
    /\ \E i \in 1..Len(whLog) :
          ~whLog[i].authentic /\ whLog[i].json /\ whLog[i].status = 403
    /\ \E i \in 1..Len(whLog) :
          ~whLog[i].authentic /\ whLog[i].json /\ whLog[i].status = 400
    /\ email_events = << >>

\* C17: a correctly signed webhook request with a well-formed JSON body is
\* answered 200 also when the INSERT or the commit fails: the failure is
\* swallowed, nothing is stored, and the answer is never a 5xx.
C17_StoreFailureAcknowledged ==
    \A i \in 1..Len(whLog) :
        (whLog[i].authentic /\ whLog[i].json) =>
            /\ whLog[i].status = 200
            /\ whLog[i].db_error => ~whLog[i].wrote

C17_Witness ==
    \E i \in 1..Len(whLog) : \E j \in (i + 1)..Len(whLog) :
        /\ whLog[i].authentic /\ whLog[i].json /\ whLog[i].db_error
        /\ whLog[i].status = 200 /\ ~whLog[i].wrote
        /\ whLog[j].authentic /\ ~whLog[j].db_error
        /\ whLog[j].provider_id = whLog[i].provider_id
        /\ whLog[j].status = 200 /\ whLog[j].wrote

\* ---------------------------------------------------------------------------
\* Properties of the token refresh
\* ---------------------------------------------------------------------------
\* timedelta(minutes=5) for Google, timedelta(days=7) for Instagram
BufferOf(p) == IF p = "google_analytics" THEN GoogleBuffer ELSE InstagramBuffer

\* expires_at is more than the safety buffer in the future
BeyondBuffer(p, r) ==
    r.pre.expires_at # NullTime /\ r.pre.expires_at > r.now + BufferOf(p)

\* the call returned the stored token, made no upstream call, changed no field
IsNoOp(r) ==
    /\ r.status = 200
    /\ r.token = r.pre.access_token
    /\ r.upstream = 0
    /\ r.post = r.pre

\* C8 as stated: both refresh functions are no-ops when expires_at is more
\* than the safety buffer in the future, and perform exactly one upstream
\* token request when expires_at is within the buffer, past, or null.
C8_RefreshOnlyWhenStale ==
    \A p \in Providers :
        LET r == lastRefresh[p]
        IN r.called =>
              /\ BeyondBuffer(p, r) => IsNoOp(r)
              /\ ~BeyondBuffer(p, r) => r.upstream = 1

\* C8 amended: with the provider's client id and secret configured, both
\* refresh functions are no-ops when expires_at is more than the safety buffer
\* in the future; when it is within the buffer, past, or null,
\* refresh_instagram_token performs exactly one upstream token request, and
\* refresh_google_token performs exactly one if a refresh_token is stored and
\* otherwise raises 401 without any upstream request or field change.
C8_RefreshOnlyWhenStale_Amended ==
    \A p \in Providers :
        LET r == lastRefresh[p]
        IN (r.called /\ oauth_configured[p]) =>
              /\ BeyondBuffer(p, r) => IsNoOp(r)
              /\ (~BeyondBuffer(p, r) /\ p = "instagram") => r.upstream = 1
              /\ (~BeyondBuffer(p, r) /\ p = "google_analytics"
                    /\ Truthy(r.pre.refresh_token)) => r.upstream = 1
              /\ (~BeyondBuffer(p, r) /\ p = "google_analytics"
                    /\ ~Truthy(r.pre.refresh_token))
                    => (r.status = 401 /\ r.upstream = 0 /\ r.post = r.pre)

C8_Witness ==
    /\ oauth_configured = [p \in Providers |-> TRUE]
    /\ lastRefresh["google_analytics"].called
    /\ ~BeyondBuffer("google_analytics", lastRefresh["google_analytics"])
    /\ lastRefresh["google_analytics"].pre.expires_at > lastRefresh["google_analytics"].now
    /\ lastRefresh["google_analytics"].upstream = 1
    /\ lastRefresh["google_analytics"].status = 200
    /\ lastRefresh["instagram"].called
    /\ BeyondBuffer("instagram", lastRefresh["instagram"])
    /\ IsNoOp(lastRefresh["instagram"])

\* C15: when the token endpoint answers a refresh with a network error or a
\* non-2xx status, refresh_google_token and refresh_instagram_token raise
\* HTTP 401, return no token (in particular not the stored one), and leave
\* the stored access_token and expires_at unchanged.
C15_UpstreamFailureRaises ==
    \A p \in Providers :
        (lastRefresh[p].called /\ lastAnswer[p].asked /\ ~lastAnswer[p].ok) =>
            /\ lastRefresh[p].status = 401
            /\ lastRefresh[p].token = None
            /\ lastRefresh[p].post.access_token = lastRefresh[p].pre.access_token
            /\ lastRefresh[p].post.expires_at = lastRefresh[p].pre.expires_at

C15_Witness ==
    \A p \in Providers :
        /\ lastRefresh[p].called
        /\ lastAnswer[p].asked /\ ~lastAnswer[p].ok
        /\ lastRefresh[p].status = 401
        /\ lastRefresh[p].pre.access_token = "at_0"
        /\ data_sources[CHOOSE i \in 1..Len(data_sources) :
                           data_sources[i].source_name = p].access_token = "at_0"

\* the credential had no refresh token and its access token was expired or
\* within the safety buffer (or carried no expiry) when the refresh was called
StaleWithoutRefreshToken(p, r) ==
    r.called /\ ~Truthy(r.pre.refresh_token) /\ ~BeyondBuffer(p, r)

\* C16 as stated: a refresh of a credential that has no refresh token and
\* whose access token is expired or within the safety buffer fails with HTTP
\* 401, sends no upstream request and changes no credential field.
C16_NoRefreshTokenUnauthorized ==
    \A p \in Providers :
        StaleWithoutRefreshToken(p, lastRefresh[p]) =>
            /\ lastRefresh[p].status = 401
            /\ lastRefresh[p].upstream = 0
            /\ lastRefresh[p].post = lastRefresh[p].pre

\* C16 amended: such a refresh sends no upstream request and changes no
\* credential field, and fails with HTTP 401 when the provider's client id
\* and secret are configured and with HTTP 500 when they are not.
C16_NoRefreshTokenUnauthorized_Amended ==
    \A p \in Providers :
        StaleWithoutRefreshToken(p, lastRefresh[p]) =>
            /\ lastRefresh[p].status = (IF oauth_configured[p] THEN 401 ELSE 500)
            /\ lastRefresh[p].token = None
            /\ lastRefresh[p].upstream = 0
            /\ lastRefresh[p].post = lastRefresh[p].pre

C16_Witness ==
    /\ oauth_configured["google_analytics"]
    /\ StaleWithoutRefreshToken("google_analytics", lastRefresh["google_analytics"])
    /\ lastRefresh["google_analytics"].pre.expires_at > lastRefresh["google_analytics"].now
    /\ lastRefresh["google_analytics"].status = 401
    /\ ~lastAnswer["google_analytics"].asked

\* ---------------------------------------------------------------------------
\* Properties of the rate limiter
\* ---------------------------------------------------------------------------
\* C9: with capacity 10 and refill rate 0.5/s, on a fresh key 10 consecutive
\* allow(key) calls with no elapsed time all return True and the 11th returns
\* False; a further allow(key) made after 2 seconds returns True.
C9_BurstThenRefill ==
    \A k \in Keys :
        /\ (burst[k].live /\ burst[k].n <= Capacity) => burst[k].admitted = burst[k].n
        /\ (burst[k].live /\ burst[k].n = Capacity + 1) => burst[k].admitted = Capacity
        /\ burst[k].after # "no"

C9_Witness ==
    \E k \in Keys :
        /\ burst[k].n = Capacity + 1
        /\ burst[k].admitted = Capacity
        /\ burst[k].after = "yes"

\* C10: after any sequence of allow(key, tokens) calls on any keys at any
\* clock readings, every bucket satisfies 0 <= tokens <= capacity.
C10_TokensInRange ==
    \A k \in Keys :
        buckets[k].present =>
            /\ 0 <= buckets[k].tokens
            /\ buckets[k].tokens <= Capacity * UnitsPerToken

\* a thread is between taking and releasing InMemoryRateLimiter.lock
InAllow(t) == apc[t] \in {"locked", "refilled", "admit"}

\* C11: under any interleaving of concurrent allow(key) calls, refill, check
\* and decrement of a bucket form one critical section: at most one thread is
\* inside it, the tokens a caller saw at its check are still the bucket's
\* when it decrements, the units taken by admitted calls never exceed the
\* units the bucket was credited with (so no bucket goes below zero), and of
\* two concurrent callers on a bucket holding tokens for one only one is
\* admitted.
C11_AllowIsAtomic ==
    /\ \A t, u \in Threads : (InAllow(t) /\ InAllow(u)) => t = u
    /\ \A t \in Threads : InAllow(t) => rate_limiter_lock = t
    /\ \A t \in Threads :
          apc[t] = "admit" => buckets[alocal[t].key].tokens = alocal[t].seen
    /\ \A k \in Keys :
          /\ credit[k] >= 0
          /\ buckets[k].present => buckets[k].tokens >= 0
    /\ \A t, u \in Threads :
          (/\ t # u
           /\ apc[t] = "returned" /\ apc[u] = "returned"
           /\ alocal[t].key = alocal[u].key
           /\ alocal[u].overlapped
           /\ alocal[t].result = "True"
           /\ alocal[t].seen < (alocal[t].tokens + alocal[u].tokens) * UnitsPerToken
           /\ alocal[u].seen <= alocal[t].seen - alocal[t].tokens * UnitsPerToken)
          => alocal[u].result = "False"

C11_Witness ==
    \E t, u \in Threads :
        /\ t # u
        /\ apc[t] = "returned" /\ apc[u] = "returned"
        /\ alocal[t].key = alocal[u].key
        /\ alocal[t].tokens = 1 /\ alocal[u].tokens = 1
        /\ alocal[u].overlapped
        /\ alocal[t].seen \in UnitsPerToken..(2 * UnitsPerToken - 1)
        /\ alocal[t].result = "True"
        /\ alocal[u].result = "False"

\* ---------------------------------------------------------------------------
\* Properties of the batch digest endpoint
\* ---------------------------------------------------------------------------
\* C12: a POST /v1/digest/weekly request made less than 10 minutes after the
\* started_at of a run already in digest_runs is answered with HTTP 429,
\* whatever became of that run, and creates no digest_runs row and sends no
\* email.
C12_CooldownRejects ==
    \A i \in 1..Len(weeklyLog) :
        weeklyLog[i].cooling =>
            /\ weeklyLog[i].status = 429
            /\ weeklyLog[i].run_id = 0
            /\ weeklyLog[i].sent = 0

\* the full-population runs executing now: run_weekly_digests invocations
\* (scheduled job, POST /v1/digest/scheduled-run-all) and POST
\* /v1/digest/weekly requests with scope 'all' past the cooldown gate
RunningJobs == {t \in DThreads : dpc[t] # "idle"}
RunningWeekly == {t \in Threads : wpc[t] # "idle" /\ wlocal[t].payload.scope = "all"}

\* C13: under any interleaving of the scheduled job, POST
\* /v1/digest/scheduled-run-all and POST /v1/digest/weekly, no
\* full-population run starts while another one is still executing: at most
\* one is executing in every reachable state.
C13_NoOverlappingRuns ==
    Cardinality(RunningJobs) + Cardinality(RunningWeekly) <= 1

\* the digest_runs rows in flight (finished_at null) and the finished ones
InFlight == {i \in 1..Len(digest_runs) : digest_runs[i].finished_at = NullTime}
Finished == {i \in 1..Len(digest_runs) : digest_runs[i].finished_at # NullTime}
\* the batch invocations that ended (a request the cooldown rejected starts
\* no run), and those that have started their run and not ended
EndedRuns ==
    Len(runLog) + Cardinality({i \in 1..Len(weeklyLog) : weeklyLog[i].status # 429})
StartedRuns ==
    Cardinality({t \in DThreads : dpc[t] # "idle"})
        + Cardinality({t \in Threads : wpc[t] \in {"commit", "recipients", "send"}})

\* C39: each batch digest invocation records exactly one digest_runs row,
\* inserted with finished_at null when the run starts and finished by the
\* time the invocation ends: the rows in flight are those of the invocations
\* executing, and the finished rows those of the invocations that ended.
C39_OneRowPerInvocation ==
    /\ Cardinality(InFlight) = StartedRuns
    /\ Cardinality(Finished) = EndedRuns

\* C40: a user whose opt_in_digest is false never receives a weekly digest
\* while opted out: no step delivers a digest email to a user who is opted
\* out at that step.
C40_OptedOutNeverReceives ==
    [][\A u \in Users : delivered'[u] > delivered[u] => opt_in_digest[u]]_vars

\* the buckets of the keys other than key are the same after the step
OtherBucketsKept(key) == \A k \in Keys \ {key} : buckets'[k] = buckets[k]

\* what a step of the allow call of thread t does to the buckets: the refill
\* touches the bucket of its key only; the check changes nothing, goes on to
\* admit only with at least cost tokens in the bucket, and otherwise returns
\* False at once; the admission takes exactly cost tokens and returns True
AllowStepEffect(t) ==
    LET key == alocal[t].key
        units == alocal[t].tokens * UnitsPerToken
    IN /\ (apc[t] = "locked" /\ apc'[t] = "refilled") =>
             /\ OtherBucketsKept(key)
             /\ buckets'[key].last_refill = clock
       /\ (apc[t] = "refilled" /\ apc'[t] = "admit") =>
             /\ buckets' = buckets
             /\ buckets[key].tokens >= units
       /\ (apc[t] = "refilled" /\ apc'[t] = "returned") =>
             /\ buckets' = buckets
             /\ buckets[key].tokens < units
             /\ alocal'[t].result = "False"
             /\ rate_limiter_lock' = 0
       /\ (apc[t] = "admit" /\ apc'[t] = "returned") =>
             /\ OtherBucketsKept(key)
             /\ buckets'[key] = [buckets[key] EXCEPT !.tokens = @ - units]
             /\ alocal'[t].result = "True"
       /\ (apc[t] \in {"idle", "wait", "returned"} /\ apc'[t] # apc[t]) =>
             buckets' = buckets

\* C38: allow(key, cost) admits only if the bucket holds at least cost tokens
\* after the refill and takes exactly cost on admission; a denied call
\* returns False at the check, with the bucket as the refill left it; the
\* buckets of the other keys are unchanged by every step of the call.
C38_AllowEffect ==
    [][\A t \in Threads : AllowStepEffect(t)]_vars
\* a call was denied and a call of the same key was admitted
C38_Witness ==
    \E t, u \in Threads :
        /\ apc[t] = "returned" /\ alocal[t].result = "False"
        /\ apc[u] = "returned" /\ alocal[u].result = "True"
        /\ alocal[t].key = alocal[u].key
        /\ \E k \in Keys \ {alocal[t].key} : buckets[k].present

\* ---------------------------------------------------------------------------
\* Properties of the provider connection
\* ---------------------------------------------------------------------------
\* C14: after any sequence and interleaving of OAuth callbacks and token
\* refreshes, data_sources holds at most one row per (user_id, source_name).
C14_OneRowPerSource ==
    \A i, j \in 1..Len(data_sources) :
        (/\ data_sources[i].user_id = data_sources[j].user_id
         /\ data_sources[i].source_name = data_sources[j].source_name) => i = j

\* ---------------------------------------------------------------------------
\* Properties of send_weekly_digest and run_weekly_digests
\* ---------------------------------------------------------------------------
\* the invocation of thread t stands at the idempotency check and the ledger
\* holds a 'sent' row for its (user, period)
AtCheckAfterSent(t) ==
    /\ dpc[t] = "check"
    /\ ExistingSent(digest_log, dlocal[t].user_id, dlocal[t].period) # {}

\* the step returns 'skipped' from the invocation of thread t and leaves the
\* ledger, the deliveries and last_digest_sent_at alone
SkipsWithoutEffect(t) ==
    /\ dpc'[t] = "loop"
    /\ Len(callLog') = Len(callLog) + 1
    /\ callLog'[Len(callLog')].thread = t
    /\ callLog'[Len(callLog')].status = "skipped"
    /\ digest_log' = digest_log
    /\ delivered' = delivered
    /\ last_digest_sent_at' = last_digest_sent_at

\* C18: once a digest_log row with status 'sent' exists for (user, period), a
\* send_weekly_digest call for that user in that period returns 'skipped'
\* with no side effects: no email is sent, no digest_log row is added and
\* last_digest_sent_at is unchanged.
C18_SentIsTerminal ==
    [][\A t \in DThreads :
          (AtCheckAfterSent(t) /\ dpc'[t] # dpc[t]) => SkipsWithoutEffect(t)]_vars

\* the invocations that passed the user lookup, the opt-in check and the
\* idempotency gate and returned: the others return 'skipped' (or raise)
PassedGate(c) == c.status \in {"sent", "error"}
Recorded == SelectSeq(callLog, PassedGate)

\* the ledger row that reflects the outcome of the invocation c
OutcomeRow(c) ==
    [user_id |-> c.user_id, period_start |-> c.period[1], period_end |-> c.period[2],
     status |-> c.status,
     error_message |-> IF c.status = "sent" THEN None ELSE c.message]

\* the emails delivered to u whose invocation has a 'sent' row, or is about
\* to write it
SentRows(u) ==
    Cardinality({k \in 1..Len(digest_log) :
                    digest_log[k].user_id = u /\ digest_log[k].status = "sent"})
AboutToLogSent(u) ==
    Cardinality({t \in DThreads : dpc[t] = "log_sent" /\ dlocal[t].user_id = u})

CallsWith(r, status) == {k \in 1..Len(r.calls) : r.calls[k].status = status}

\* the users of the failed calls of a returned run, in the order of the loop
FailedUsers(r) ==
    LET F[k \in 0..Len(r.calls)] ==
          IF k = 0 THEN << >>
          ELSE IF r.calls[k].status = "error"
               THEN Append(F[k - 1], r.calls[k].user_id) ELSE F[k - 1]
    IN F[Len(r.calls)]

\* number of digest_log rows with status 'error' for (user, period), and
\* number of send_weekly_digest calls that returned 'error' for it
ErrorRows(u, p) ==
    Cardinality({i \in 1..Len(digest_log) :
                    /\ digest_log[i].user_id = u
                    /\ digest_log[i].period_start = p[1]
                    /\ digest_log[i].period_end = p[2]
                    /\ digest_log[i].status = "error"})
ErrorCalls(u, p) ==
    Cardinality({i \in 1..Len(callLog) :
                    /\ callLog[i].user_id = u
                    /\ callLog[i].period = p
                    /\ callLog[i].status = "error"})

\* the calls thread t has received an answer to in its current run
Tallied(t) ==
    dlocal[t].results.sent + dlocal[t].results.skipped + dlocal[t].results.errors

\* the loop of thread t loses no user: the users tallied, the user being
\* processed and the users still to come are the users selected
LoopKeepsUsers(t) ==
    LET l == dlocal[t]
        current == IF dpc[t] \in {"idle", "loop"} THEN << >> ELSE <<l.user_id>>
        done == LastCalls(t, Tallied(t))
    IN /\ Len(done) = Tallied(t)
       /\ [k \in 1..Len(done) |-> done[k].user_id] \o current \o l.users = l.selected
       /\ l.results.total_users = Len(l.selected)

\* C20: in run_weekly_digests a delivery failure for one user is recorded as
\* an 'error' digest_log row and does not abort the batch: every user selected
\* as opted-in is processed exactly once per run, and the returned summary
\* satisfies sent + skipped + errors = total_users with one error_details
\* entry per failed user.
C20_FailureDoesNotAbort ==
    /\ \A i \in 1..Len(callLog) : callLog[i].status # "raised"
    /\ \A u \in Users : \A p \in SeenPeriods : ErrorRows(u, p) = ErrorCalls(u, p)
    /\ \A t \in DThreads : LoopKeepsUsers(t)
    /\ \A i \in 1..Len(runLog) :
          LET r == runLog[i] IN
          /\ r.results.total_users = Len(r.selected)
          /\ Len(r.calls) = Len(r.selected)
          /\ \A k \in 1..Len(r.calls) : r.calls[k].user_id = r.selected[k]
          /\ \A j, k \in 1..Len(r.selected) : r.selected[j] = r.selected[k] => j = k
          /\ r.results.sent = Cardinality(CallsWith(r, "sent"))
          /\ r.results.skipped = Cardinality(CallsWith(r, "skipped"))
          /\ r.results.errors = Cardinality(CallsWith(r, "error"))
          /\ r.results.sent + r.results.skipped + r.results.errors = r.results.total_users
          /\ r.results.error_details = FailedUsers(r)

C20_Witness ==
    \E i \in 1..Len(runLog) :
        LET r == runLog[i] IN
        /\ r.results.total_users = 2
        /\ r.calls[1].status = "error"
        /\ r.calls[2].status = "sent"
        /\ r.results.errors = 1
        /\ r.results.sent = 1
        /\ r.results.error_details = <<r.selected[1]>>
        /\ ErrorRows(r.selected[1], r.calls[1].period) = 1

\* ---------------------------------------------------------------------------
\* Properties of the period computation
\* ---------------------------------------------------------------------------
\* day 0 is a Monday
IsMonday(d) == d % 7 = 0
IsSunday(d) == d % 7 = 6

\* the date in the time zone tz at the instant, from the hours of the local
\* wall clock
WallDate(tz, instant) ==
    CHOOSE d \in (0 - 1)..(MaxHours \div 24 + 1) :
        LET local == instant + UtcOffset(tz, instant)
        IN 24 * d <= local /\ local < 24 * (d + 1)

C21_FailuresRedirect ==
    \A i \in 1..Len(cbLog) :
        cbLog[i].response # Redirect("success") => cbLog[i].response = Redirect("error")

\* the causes that are failures of Instagram account discovery
DiscoveryFailures == {"pages_failed", "no_pages", "no_account"}

\* the data_sources rows of Instagram
InstagramRows == {i \in 1..Len(data_sources) : data_sources[i].source_name = "instagram"}

\* C22: if Instagram account discovery fails during the callback (the pages
\* request fails, the user manages no pages, or no managed page has a linked
\* Instagram Business account), the whole connect attempt fails and the
\* data_sources row for (user, instagram) is neither created nor modified: no
\* token is ever stored without a resolved external account id.
C22_DiscoveryFailureStoresNothing ==
    /\ \A i \in 1..Len(cbLog) :
          (cbLog[i].provider = "instagram" /\ cbLog[i].cause \in DiscoveryFailures) =>
              /\ cbLog[i].response.kind = "http"
              /\ ~cbLog[i].wrote
    /\ \A i \in InstagramRows :
          /\ Truthy(data_sources[i].refresh_token)
          /\ Truthy(data_sources[i].access_token)
    /\ \A t \in Threads :
          (cpc[t] \in {"select", "save"} /\ clocal[t].provider = "instagram") =>
              Truthy(clocal[t].refresh_token)
    /\ Cardinality(InstagramRows) <=
          Cardinality({i \in 1..Len(cbLog) :
                          cbLog[i].provider = "instagram" /\ cbLog[i].wrote})

C22_Witness ==
    /\ Len(cbLog) = 2
    /\ cbLog[1].provider = "instagram" /\ cbLog[1].wrote
    /\ cbLog[2].provider = "instagram" /\ cbLog[2].cause = "no_account"
    /\ Len(data_sources) = 1
    /\ data_sources[1].refresh_token = "ig_17"

\* the callbacks that passed verify_oauth_state with the state s: those
\* answered after the token exchange was sent, and those still being handled
ExchangesOf(s) ==
    Cardinality({i \in 1..Len(cbLog) : cbLog[i].state = s /\ cbLog[i].exchanged})
        + Cardinality({t \in Threads : cpc[t] # "idle" /\ clocal[t].state = s})

\* C24: in both OAuth callbacks the state token is consumed before the
\* token-exchange request is sent, so for each issued state at most one token
\* exchange is ever sent upstream, and a callback whose later step failed
\* cannot be retried with the same state: the replay is rejected without
\* contacting the provider and without touching data_sources.
C24_ConsumeBeforeExchange ==
    /\ \A s \in 1..(MaxTokens + 1) :
          ExchangesOf(s) <= (IF s \in DOMAIN issued THEN 1 ELSE 0)
    /\ \A t \in Threads :
          cpc[t] # "idle" => clocal[t].state \notin DOMAIN oauth_state_store
    /\ \A i \in 1..Len(cbLog) :
          /\ cbLog[i].exchanged => cbLog[i].state \notin DOMAIN oauth_state_store
          /\ cbLog[i].cause = "state" =>
                /\ ~cbLog[i].exchanged
                /\ ~cbLog[i].wrote
                /\ cbLog[i].response = Redirect("error")
          /\ \A j \in (i + 1)..Len(cbLog) :
                (cbLog[i].state = cbLog[j].state /\ cbLog[i].exchanged) =>
                    cbLog[j].cause = "state"

C24_Witness ==
    /\ Len(cbLog) = 2
    /\ cbLog[1].provider = "instagram"
    /\ cbLog[1].cause = "exchange"
    /\ cbLog[1].exchanged
    /\ cbLog[2].state = cbLog[1].state
    /\ cbLog[2].cause = "state"
    /\ ~cbLog[2].exchanged
    /\ data_sources = << >>

\* ---------------------------------------------------------------------------
\* Properties of the disconnect routes
\* ---------------------------------------------------------------------------
\* the rows of a table that are not the rows of (user_id, source_name), in order
OtherRows(rows, user_id, source_name) ==
    LET Other(r) == ~(r.user_id = user_id /\ r.source_name = source_name)
    IN SelectSeq(rows, Other)

\* a disconnect request for (provider, email) is answered 200 in this step
Disconnected(provider, email) ==
    /\ disconnect(provider, email)
    /\ lastDisconnect'.status = 200

\* C25: after disconnect_google or disconnect_instagram returns for a user, no
\* data_sources row exists for (user, that provider), the other provider's
\* row (and every other user's) is unchanged, and for Google the cached
\* linkage field users.google_sub is cleared.
C25_DisconnectRemoves ==
    [][\A p \in Providers, e \in Emails :
          Disconnected(p, e) =>
              /\ RowsOf(data_sources', UserIdOf(e), p) = {}
              /\ OtherRows(data_sources', UserIdOf(e), p) = OtherRows(data_sources, UserIdOf(e), p)
              /\ (p = "google_analytics" => google_sub'[UserIdOf(e)] = None)
              /\ \A u \in Users \ {UserIdOf(e)} : google_sub'[u] = google_sub[u]]_vars

C25_Witness ==
    LET d == lastDisconnect IN
    /\ d.called /\ d.status = 200 /\ d.removed > 0
    /\ d.provider = "google_analytics"
    /\ Len(data_sources) = 1
    /\ data_sources[1].source_name = "instagram"
    /\ data_sources[1].user_id = d.user_id
    /\ google_sub[d.user_id] = None
    /\ \E u \in Users : google_sub[u] = "sub"

\* ---------------------------------------------------------------------------
\* Properties of the ledger after a failure
\* ---------------------------------------------------------------------------
\* the positions of the digest_log rows of (user, period)
RowsFor(u, p) ==
    {i \in 1..Len(digest_log) : /\ digest_log[i].user_id = u
                                /\ digest_log[i].period_start = p[1]
                                /\ digest_log[i].period_end = p[2]}
SentFor(u, p) == {i \in RowsFor(u, p) : digest_log[i].status = "sent"}
ErrorFor(u, p) == {i \in RowsFor(u, p) : digest_log[i].status = "error"}

\* thread t is past the idempotency check: it sends, or has sent and logs
Attempting(t) == dpc[t] \in {"send", "log_sent", "log_error"}

LeavesCheckAfterError(t) ==
    /\ dpc[t] = "check"
    /\ dpc'[t] # "check"
    /\ ErrorFor(dlocal[t].user_id, dlocal[t].period) # {}

LogsRetry(t) ==
    /\ dpc[t] \in {"log_sent", "log_error"}
    /\ dpc'[t] # dpc[t]
    /\ ErrorFor(dlocal[t].user_id, dlocal[t].period) # {}

\* C27: DigestLog is append-only: no operation updates or deletes an existing
\* digest_log row, and a retry after a failed attempt appends a new row and
\* leaves the earlier 'error' row unchanged.
C27_AppendOnly ==
    [][/\ Len(digest_log') >= Len(digest_log)
       /\ \A i \in 1..Len(digest_log) : digest_log'[i] = digest_log[i]
       /\ \A t \in DThreads :
             LogsRetry(t) =>
                /\ Len(digest_log') = Len(digest_log) + 1
                /\ \A i \in ErrorFor(dlocal[t].user_id, dlocal[t].period) :
                      /\ digest_log'[i].status = "error"
                      /\ digest_log'[i].error_message = digest_log[i].error_message]_vars

\* a retry that succeeded: the 'error' row of the first attempt is followed by
\* the 'sent' row of the second, and the run that retried has returned
C27_Witness ==
    /\ Len(digest_log) = 2
    /\ digest_log[1].status = "error"
    /\ digest_log[1].error_message # None
    /\ digest_log[2].status = "sent"
    /\ digest_log[2].user_id = digest_log[1].user_id
    /\ digest_log[2].period_start = digest_log[1].period_start
    /\ digest_log[2].period_end = digest_log[1].period_end
    /\ Len(runLog) = 2
    /\ \A t \in DThreads : dpc[t] = "idle"

\* ---------------------------------------------------------------------------
\* Properties of a successful refresh
\* ---------------------------------------------------------------------------
\* the last refresh of provider p asked the token endpoint and returned a token
Refreshed(p) ==
    /\ lastRefresh[p].called
    /\ lastRefresh[p].upstream = 1
    /\ lastRefresh[p].status = 200

\* the row the last refresh of provider p left is the row the table holds
Committed(p) == \E i \in 1..Len(data_sources) : data_sources[i] = lastRefresh[p].post

\* C28: on a successful Google refresh the credential's access_token becomes
\* the returned token and expires_at becomes now + the returned expires_in;
\* the update is committed before the token is returned to the caller; and
\* refresh_token, account_ref, user_id and source_name are left untouched.
C28_GoogleRefreshUpdates ==
    Refreshed("google_analytics") =>
        LET r == lastRefresh["google_analytics"]
            ans == lastAnswer["google_analytics"]
        IN /\ ans.asked /\ ans.ok /\ ans.access_token # None
           /\ r.token = ans.access_token
           /\ r.post.access_token = ans.access_token
           /\ ans.expires_in # NoExpiresIn => r.post.expires_at = r.now + ans.expires_in
           /\ Committed("google_analytics")
           /\ r.post.refresh_token = r.pre.refresh_token
           /\ r.post.account_ref = r.pre.account_ref
           /\ r.post.user_id = r.pre.user_id
           /\ r.post.source_name = r.pre.source_name

\* a stale Google credential was refreshed at a time after the start of the
\* run: the row holds the new token for 60 seconds from then
C28_Witness ==
    /\ Refreshed("google_analytics")
    /\ lastRefresh["google_analytics"].now > 0
    /\ lastRefresh["google_analytics"].token = "at_new"
    /\ lastRefresh["google_analytics"].pre.access_token # "at_new"
    /\ Truthy(lastRefresh["google_analytics"].pre.refresh_token)
    /\ \E i \in 1..Len(data_sources) :
          /\ data_sources[i] = lastRefresh["google_analytics"].post
          /\ data_sources[i].access_token = "at_new"
          /\ data_sources[i].expires_at = lastRefresh["google_analytics"].now + 60
          /\ data_sources[i].refresh_token = lastRefresh["google_analytics"].pre.refresh_token

\* C29: on a successful Instagram refresh the credential's access_token is
\* replaced by the returned token and expires_at is set to the refresh time
\* plus the returned expires_in, while the refresh_token field (which holds
\* the resolved Instagram account id used by every later sync) and
\* account_ref are never modified by any refresh.
C29_InstagramRefreshUpdates ==
    /\ Refreshed("instagram") =>
          LET r == lastRefresh["instagram"]
              ans == lastAnswer["instagram"]
          IN /\ r.post.access_token = ans.access_token
             /\ r.token = ans.access_token
             /\ ans.expires_in # NoExpiresIn => r.post.expires_at = r.now + ans.expires_in
             /\ Committed("instagram")
    /\ \A p \in Providers :
          lastRefresh[p].called =>
              /\ lastRefresh[p].post.refresh_token = lastRefresh[p].pre.refresh_token
              /\ lastRefresh[p].post.account_ref = lastRefresh[p].pre.account_ref
    /\ \A i \in 1..Len(data_sources) :
          data_sources[i].source_name = "instagram" => Truthy(data_sources[i].refresh_token)

\* an Instagram credential that had not yet expired was refreshed inside its
\* safety buffer: the new expiry counts from the refresh, not from the old one
C29_Witness ==
    /\ Refreshed("instagram")
    /\ lastRefresh["instagram"].pre.expires_at > lastRefresh["instagram"].now
    /\ lastRefresh["instagram"].now > 0
    /\ lastRefresh["instagram"].post.expires_at = lastRefresh["instagram"].now + 5184000
    /\ lastRefresh["instagram"].post.access_token = "at_new"
    /\ Truthy(lastRefresh["instagram"].post.refresh_token)
    /\ lastRefresh["instagram"].post.refresh_token = lastRefresh["instagram"].pre.refresh_token
    /\ \E i \in 1..Len(data_sources) : data_sources[i] = lastRefresh["instagram"].post

\* ---------------------------------------------------------------------------
\* Properties of the order of the webhook's checks
\* ---------------------------------------------------------------------------
\* the first check of the fixed order that the logged request fails, as a
\* status: the secret, the header, the HMAC, the JSON parse; 200 when it
\* fails none
FirstFailure(e) ==
    IF webhook_secret \in {None, ""} THEN 500
    ELSE IF ~e.signed THEN 400
    ELSE IF ~e.authentic THEN 403
    ELSE IF ~e.json THEN 400
    ELSE 200

\* C30: resend_webhook performs its checks in a fixed order: a missing secret
\* yields 500, then a missing signature header yields 400, then an HMAC
\* mismatch yields 403, and only after the signature verifies is the body
\* parsed as JSON; a body that fails to parse after a valid signature yields
\* 400 (never 403) and writes no row.
C30_ChecksInOrder ==
    \A i \in 1..Len(whLog) :
        /\ whLog[i].status = FirstFailure(whLog[i])
        /\ whLog[i].status # 200 => ~whLog[i].wrote
        /\ (whLog[i].authentic /\ ~whLog[i].json) =>
              (whLog[i].status = 400 /\ whLog[i].provider_id = None)

\* with the secret set: a body that is not JSON was answered 400 with its
\* valid signature and 403 with a wrong one, a JSON body without the header
\* was answered 400, and nothing was stored
C30_Witness ==
    /\ webhook_secret = "whsec_live"
    /\ \E i \in 1..Len(whLog) :
          whLog[i].authentic /\ ~whLog[i].json /\ whLog[i].status = 400 /\ ~whLog[i].wrote
    /\ \E i \in 1..Len(whLog) :
          whLog[i].signed /\ ~whLog[i].authentic /\ ~whLog[i].json /\ whLog[i].status = 403
    /\ \E i \in 1..Len(whLog) :
          ~whLog[i].signed /\ whLog[i].json /\ whLog[i].status = 400
    /\ email_events = << >>

\* ---------------------------------------------------------------------------
\* Properties of the outbound email
\* ---------------------------------------------------------------------------
\* what a POST met is a reason to try again: 429, 5xx, timeout, connection error
MayRetry(o) ==
    \/ o.kind \in {"timeout", "connect"}
    \/ o.kind = "response" /\ (o.status = 429 \/ o.status >= 500)
\* a response with a status below 400, and a 4xx other than 429
Success(o) == o.kind = "response" /\ o.status < 400
Other4xx(o) == o.kind = "response" /\ o.status >= 400 /\ o.status < 500 /\ o.status # 429

\* the call in progress, or just ended, respects the retry policy: every POST
\* but the last met a reason to try again, and the last one decides the end
RetryPolicy ==
    /\ Len(posts) <= 3
    /\ \A k \in 1..(Len(posts) - 1) : MayRetry(posts[k])
    /\ mpc = "sleep" => (MayRetry(posts[Len(posts)]) /\ Len(posts) < 3)
    /\ mpc = "post" => (Len(posts) < 3 /\ \A k \in 1..Len(posts) : MayRetry(posts[k]))
    /\ (mpc = "done" /\ posts # << >>) =>
          LET last == posts[Len(posts)] IN
          /\ Success(last) => mresult = Returned(last.status)
          /\ Other4xx(last) => mresult.kind = "RuntimeError"
          /\ MayRetry(last) => (Len(posts) = 3 /\ mresult.kind = "RuntimeError")
          /\ mresult.kind = "returned" => Success(last)

\* C31: send_email_resend always terminates after at most 3 delivery attempts
\* in total: it retries only after a 429, a 5xx, a timeout or a connection
\* error, returns the provider response on the first status below 400, raises
\* immediately without retry on any other 4xx, and raises RuntimeError once
\* the third attempt has failed.
C31_SendTerminates ==
    /\ []RetryPolicy
    /\ [](mpc \in {"post", "sleep"} => <>(mpc = "done" /\ mresult # NoResult))

\* three attempts that failed in the three retryable ways, with the two
\* sleeps of 0.5 s and 1 s between them
C31_Witness ==
    /\ mpc = "done"
    /\ posts = <<Response(429), PostError("timeout"), Response(503)>>
    /\ slept = 15
    /\ mresult.kind = "RuntimeError"

\* ---------------------------------------------------------------------------
\* Properties of the state check of the callbacks
\* ---------------------------------------------------------------------------
\* the state was never issued / is stored and past its expiry
NeverIssued(state) == state \notin DOMAIN issued
ExpiredStored(state) ==
    /\ state \in DOMAIN oauth_state_store
    /\ oauth_state_store[state].expires_at < clock

\* what the caller of a callback with a rejected state sees
RejectedState(provider, state) ==
    [provider |-> provider, state |-> state, cause |-> "state",
     response |-> [kind |-> "redirect", code |-> 307, status |-> "error", detail |-> FALSE],
     exchanged |-> FALSE, wrote |-> FALSE]

\* C32: an expired-but-still-stored state token and a never-issued state token
\* are indistinguishable to the caller: verify_oauth_state returns None for
\* both and the OAuth callback produces the same response (redirect with
\* status=error) in both cases.
C32_ExpiredLikeUnknown ==
    [][\A p \in Providers, state \in 1..(MaxTokens + 1) :
          (CallbackVerify(1, p, state) /\ (NeverIssued(state) \/ ExpiredStored(state))) =>
              /\ VerifyResult(GetState(oauth_state_store, state), clock) = None
              /\ cbLog' = Append(cbLog, RejectedState(p, state))
              /\ cpc' = cpc
              /\ data_sources' = data_sources
              /\ state \notin DOMAIN oauth_state_store']_vars

\* two callbacks of one provider were answered: the first carried a state
\* nobody issued, the second the only state issued, one second after it
\* expired; the answers are the same
C32_Witness ==
    /\ numCallbacks = 2 /\ Len(cbLog) = 2
    /\ nextToken = 2
    /\ cbLog[1].state = BogusToken
    /\ cbLog[2].state = 1
    /\ clock = issued[1].at + StateTTL + 1
    /\ cbLog[1].provider = cbLog[2].provider
    /\ cbLog[1].response = cbLog[2].response
    /\ cbLog[1].cause = "state" /\ cbLog[2].cause = "state"
    /\ oauth_state_store = << >>

\* ---------------------------------------------------------------------------
\* Properties of the eviction of expired states
\* ---------------------------------------------------------------------------
\* thread t returns from generate_oauth_state in this step
GenReturns(t) == opc[t] = "gen_locked" /\ opc'[t] = "idle"

\* C33: every generate_oauth_state call evicts expired entries: immediately
\* after the call returns, oauth_state_store contains no entry whose
\* expires_at is earlier than the time of the call, and the new entry has
\* expires_at equal to the call time plus 600 seconds.
C33_GenerateEvicts ==
    [][\A t \in Threads :
          GenReturns(t) =>
              /\ \A k \in DOMAIN oauth_state_store' :
                    oauth_state_store'[k].expires_at >= clock
              /\ olocal[t].state_token \in DOMAIN oauth_state_store'
              /\ oauth_state_store'[olocal[t].state_token].expires_at = clock + 600
              /\ \A k \in DOMAIN oauth_state_store :
                    oauth_state_store[k].expires_at >= clock =>
                        /\ k \in DOMAIN oauth_state_store'
                        /\ oauth_state_store'[k] = oauth_state_store[k]]_vars

\* the second state was issued one second after the first expired: the first,
\* never presented to verify_oauth_state, is gone and the second is stored
C33_Witness ==
    /\ DOMAIN issued = {1, 2}
    /\ issued[2].at = issued[1].at + StateTTL + 1
    /\ verifyLog[1] = << >>
    /\ DOMAIN oauth_state_store = {2}
    /\ oauth_state_store[2].expires_at = issued[2].at + StateTTL
    /\ \A t \in Threads : opc[t] = "idle"

\* ---------------------------------------------------------------------------
\* Properties of the binding of a state to its user
\* ---------------------------------------------------------------------------
\* the id of the user whose email was given to the init request that issued
\* the state
BoundUser(state) == IF issued[state].email = "a@x.io" THEN 1 ELSE 2

\* the positions at which the table differs after the step
Written == {k \in 1..Len(data_sources') : k > Len(data_sources) \/ data_sources'[k] # data_sources[k]}

\* thread t ends a callback in this step
CallbackEnds(t) == cpc[t] # "idle" /\ cpc'[t] = "idle"

\* C34: a successful OAuth callback carrying state s creates or updates the
\* credential only of the user whose email was given to the init request that
\* issued s; no sequence of init and callback requests lets a callback write a
\* credential for a user other than the one bound to its state.
C34_WritesBoundUserOnly ==
    [][/\ Len(data_sources') >= Len(data_sources)
       /\ Written # {} => \E t \in Threads : CallbackEnds(t)
       /\ \A t \in Threads :
             CallbackEnds(t) =>
                 /\ clocal[t].state \in DOMAIN issued
                 /\ \A k \in Written :
                       /\ data_sources'[k].user_id = BoundUser(clocal[t].state)
                       /\ data_sources'[k].source_name = clocal[t].provider
                       /\ k <= Len(data_sources) =>
                             /\ data_sources[k].user_id = BoundUser(clocal[t].state)
                             /\ data_sources[k].source_name = clocal[t].provider]_vars

\* two users connected the same provider with their own states, the second
\* callback starting before the first ended: each row is its user's
C34_Witness ==
    /\ Len(data_sources) = 2 /\ Len(cbLog) = 2
    /\ cbLog[1].wrote /\ cbLog[2].wrote
    /\ cbLog[1].provider = cbLog[2].provider
    /\ issued[cbLog[1].state].email # issued[cbLog[2].state].email
    /\ data_sources[1].user_id = BoundUser(cbLog[1].state)
    /\ data_sources[2].user_id = BoundUser(cbLog[2].state)
    /\ data_sources[1].user_id # data_sources[2].user_id

\* ---------------------------------------------------------------------------
\* Properties of the binding of a state to its provider
\* ---------------------------------------------------------------------------
\* C35: a state token binds a callback to the request that started it: a token
\* issued by one provider's init endpoint is accepted only by that same
\* provider's callback, so a state from /v1/connections/google/init presented
\* to /v1/connections/instagram/callback (or the reverse) is rejected.  Every
\* state of SpecCrossProvider was issued by the Google init endpoint.
C35_StateBoundToProvider ==
    /\ \A t \in Threads : cpc[t] # "idle" => clocal[t].provider = "google_analytics"
    /\ \A i \in 1..Len(cbLog) :
          cbLog[i].provider = "instagram" =>
              /\ cbLog[i].cause = "state"
              /\ ~cbLog[i].exchanged
              /\ ~cbLog[i].wrote
    /\ \A k \in 1..Len(data_sources) : data_sources[k].source_name = "google_analytics"

====
